---- MODULE Spec2Model ----
(***************************************************************************)
(* A model of the repository summarizer's selection, fetch and rendering   *)
(* pipeline: processor.py (skip and tier classifiers, filter_and_prioritize,*)
(* truncate_file, build_file_context, build_directory_tree) and github.py   *)
(* (_fetch_file, fetch_repo_contents).                                      *)
(*                                                                         *)
(* A Python str is a sequence of Unicode code points (integers); a bytes   *)
(* value is a sequence of integers 0..255.  Indexes passed between the     *)
(* operators that model Python calls are 0-based, as in the source.        *)
(***************************************************************************)
EXTENDS Integers, Sequences, FiniteSets, TLC

(***************************************************************************)
(* Python str primitives.                                                  *)
(***************************************************************************)
NL == 10
SLASH == 47
DOT == 46

SetMax(S) == CHOOSE m \in S : \A x \in S : x <= m

Min(a, b) == IF a <= b THEN a ELSE b

\* s[i:] of t starts at 1-based position i of s
StartsAt(s, i, t) ==
    /\ i >= 1
    /\ i + Len(t) - 1 <= Len(s)
    /\ \A k \in 1..Len(t) : s[i + k - 1] = t[k]

\* s.endswith(t)
EndsWith(s, t) == Len(t) <= Len(s) /\ StartsAt(s, Len(s) - Len(t) + 1, t)

\* t in s
Contains(s, t) == \E i \in 1..(Len(s) - Len(t) + 1) : StartsAt(s, i, t)

\* s.rfind(c): the 0-based index of the last c in s, or -1
RFind(s, c) ==
    LET at == {i \in 1..Len(s) : s[i] = c}
    IN  IF at = {} THEN -1 ELSE SetMax(at) - 1

\* s.count(c)
Count(s, c) == Cardinality({i \in 1..Len(s) : s[i] = c})

\* s[:n]: the first n items, or for a negative n all but the last -n
Prefix(s, n) ==
    IF n >= 0 THEN SubSeq(s, 1, Min(n, Len(s)))
    ELSE IF Len(s) + n > 0 THEN SubSeq(s, 1, Len(s) + n)
    ELSE <<>>

\* str(n) for n >= 0: the decimal digits of n
RECURSIVE Str(_)
Str(n) == IF n < 10 THEN <<48 + n>> ELSE Str(n \div 10) \o <<48 + (n % 10)>>

\* sep.join(parts)
RECURSIVE Join(_, _)
Join(sep, parts) ==
    IF Len(parts) = 0 THEN <<>>
    ELSE IF Len(parts) = 1 THEN parts[1]
    ELSE parts[1] \o sep \o Join(sep, Tail(parts))

Range(f) == {f[i] : i \in DOMAIN f}

(***************************************************************************)
(* PurePosixPath(path).parts / .name / .suffix                             *)
(***************************************************************************)
RECURSIVE SplitAt(_, _, _)
SplitAt(s, start, i) ==
    IF i > Len(s)
    THEN IF start <= Len(s) THEN <<SubSeq(s, start, Len(s))>> ELSE <<>>
    ELSE IF s[i] = SLASH
         THEN (IF i > start THEN <<SubSeq(s, start, i - 1)>> ELSE <<>>)
              \o SplitAt(s, i + 1, i + 1)
         ELSE SplitAt(s, start, i + 1)

\* the root of a POSIX path: "/" , "//" (exactly two leading slashes) or none
PathRoot(path) ==
    IF Len(path) >= 1 /\ path[1] = SLASH
    THEN IF Len(path) >= 2 /\ path[2] = SLASH /\ ~(Len(path) >= 3 /\ path[3] = SLASH)
         THEN <<SLASH, SLASH>>
         ELSE <<SLASH>>
    ELSE <<>>

\* .parts: the root if any, then the components; empty and "." components are dropped
PathParts(path) ==
    (IF PathRoot(path) = <<>> THEN <<>> ELSE <<PathRoot(path)>>)
    \o SelectSeq(SplitAt(path, 1, 1), LAMBDA seg : seg # <<DOT>>)

\* .name: the final component, empty when the path is only a root
PathName(path) ==
    LET parts == PathParts(path)
    IN  IF Len(parts) = (IF PathRoot(path) = <<>> THEN 0 ELSE 1)
        THEN <<>>
        ELSE parts[Len(parts)]

\* .suffix: the name from its last dot, when that dot is neither first nor last
PathSuffix(path) ==
    LET name == PathName(path)
        i == RFind(name, DOT)
    IN  IF 0 < i /\ i < Len(name) - 1 THEN SubSeq(name, i + 1, Len(name)) ELSE <<>>

(***************************************************************************)
(* Unicode tables of the interpreter (Python 3.11, Unicode 14.0.0): the code *)
(* points str.lower() changes and the classes \d and \w of a str pattern.   *)
(* A range is <<first, last>>, a lowering run <<first, last, step, delta>>. *)
(***************************************************************************)
\* the code points \d matches in a str pattern
DigitRanges == {
    <<48, 57>>, <<1632, 1641>>, <<1776, 1785>>, <<1984, 1993>>, <<2406, 2415>>, <<2534, 2543>>,
    <<2662, 2671>>, <<2790, 2799>>, <<2918, 2927>>, <<3046, 3055>>, <<3174, 3183>>, <<3302, 3311>>,
    <<3430, 3439>>, <<3558, 3567>>, <<3664, 3673>>, <<3792, 3801>>, <<3872, 3881>>, <<4160, 4169>>,
    <<4240, 4249>>, <<6112, 6121>>, <<6160, 6169>>, <<6470, 6479>>, <<6608, 6617>>, <<6784, 6793>>,
    <<6800, 6809>>, <<6992, 7001>>, <<7088, 7097>>, <<7232, 7241>>, <<7248, 7257>>, <<42528, 42537>>,
    <<43216, 43225>>, <<43264, 43273>>, <<43472, 43481>>, <<43504, 43513>>, <<43600, 43609>>, <<44016, 44025>>,
    <<65296, 65305>>, <<66720, 66729>>, <<68912, 68921>>, <<69734, 69743>>, <<69872, 69881>>, <<69942, 69951>>,
    <<70096, 70105>>, <<70384, 70393>>, <<70736, 70745>>, <<70864, 70873>>, <<71248, 71257>>, <<71360, 71369>>,
    <<71472, 71481>>, <<71904, 71913>>, <<72016, 72025>>, <<72784, 72793>>, <<73040, 73049>>, <<73120, 73129>>,
    <<92768, 92777>>, <<92864, 92873>>, <<93008, 93017>>, <<120782, 120831>>, <<123200, 123209>>, <<123632, 123641>>,
    <<125264, 125273>>, <<130032, 130041>>
}

\* the code points \w matches in a str pattern
WordRanges == {
    <<48, 57>>, <<65, 90>>, <<95, 95>>, <<97, 122>>, <<170, 170>>, <<178, 179>>,
    <<181, 181>>, <<185, 186>>, <<188, 190>>, <<192, 214>>, <<216, 246>>, <<248, 705>>,
    <<710, 721>>, <<736, 740>>, <<748, 748>>, <<750, 750>>, <<880, 884>>, <<886, 887>>,
    <<890, 893>>, <<895, 895>>, <<902, 902>>, <<904, 906>>, <<908, 908>>, <<910, 929>>,
    <<931, 1013>>, <<1015, 1153>>, <<1162, 1327>>, <<1329, 1366>>, <<1369, 1369>>, <<1376, 1416>>,
    <<1488, 1514>>, <<1519, 1522>>, <<1568, 1610>>, <<1632, 1641>>, <<1646, 1647>>, <<1649, 1747>>,
    <<1749, 1749>>, <<1765, 1766>>, <<1774, 1788>>, <<1791, 1791>>, <<1808, 1808>>, <<1810, 1839>>,
    <<1869, 1957>>, <<1969, 1969>>, <<1984, 2026>>, <<2036, 2037>>, <<2042, 2042>>, <<2048, 2069>>,
    <<2074, 2074>>, <<2084, 2084>>, <<2088, 2088>>, <<2112, 2136>>, <<2144, 2154>>, <<2160, 2183>>,
    <<2185, 2190>>, <<2208, 2249>>, <<2308, 2361>>, <<2365, 2365>>, <<2384, 2384>>, <<2392, 2401>>,
    <<2406, 2415>>, <<2417, 2432>>, <<2437, 2444>>, <<2447, 2448>>, <<2451, 2472>>, <<2474, 2480>>,
    <<2482, 2482>>, <<2486, 2489>>, <<2493, 2493>>, <<2510, 2510>>, <<2524, 2525>>, <<2527, 2529>>,
    <<2534, 2545>>, <<2548, 2553>>, <<2556, 2556>>, <<2565, 2570>>, <<2575, 2576>>, <<2579, 2600>>,
    <<2602, 2608>>, <<2610, 2611>>, <<2613, 2614>>, <<2616, 2617>>, <<2649, 2652>>, <<2654, 2654>>,
    <<2662, 2671>>, <<2674, 2676>>, <<2693, 2701>>, <<2703, 2705>>, <<2707, 2728>>, <<2730, 2736>>,
    <<2738, 2739>>, <<2741, 2745>>, <<2749, 2749>>, <<2768, 2768>>, <<2784, 2785>>, <<2790, 2799>>,
    <<2809, 2809>>, <<2821, 2828>>, <<2831, 2832>>, <<2835, 2856>>, <<2858, 2864>>, <<2866, 2867>>,
    <<2869, 2873>>, <<2877, 2877>>, <<2908, 2909>>, <<2911, 2913>>, <<2918, 2927>>, <<2929, 2935>>,
    <<2947, 2947>>, <<2949, 2954>>, <<2958, 2960>>, <<2962, 2965>>, <<2969, 2970>>, <<2972, 2972>>,
    <<2974, 2975>>, <<2979, 2980>>, <<2984, 2986>>, <<2990, 3001>>, <<3024, 3024>>, <<3046, 3058>>,
    <<3077, 3084>>, <<3086, 3088>>, <<3090, 3112>>, <<3114, 3129>>, <<3133, 3133>>, <<3160, 3162>>,
    <<3165, 3165>>, <<3168, 3169>>, <<3174, 3183>>, <<3192, 3198>>, <<3200, 3200>>, <<3205, 3212>>,
    <<3214, 3216>>, <<3218, 3240>>, <<3242, 3251>>, <<3253, 3257>>, <<3261, 3261>>, <<3293, 3294>>,
    <<3296, 3297>>, <<3302, 3311>>, <<3313, 3314>>, <<3332, 3340>>, <<3342, 3344>>, <<3346, 3386>>,
    <<3389, 3389>>, <<3406, 3406>>, <<3412, 3414>>, <<3416, 3425>>, <<3430, 3448>>, <<3450, 3455>>,
    <<3461, 3478>>, <<3482, 3505>>, <<3507, 3515>>, <<3517, 3517>>, <<3520, 3526>>, <<3558, 3567>>,
    <<3585, 3632>>, <<3634, 3635>>, <<3648, 3654>>, <<3664, 3673>>, <<3713, 3714>>, <<3716, 3716>>,
    <<3718, 3722>>, <<3724, 3747>>, <<3749, 3749>>, <<3751, 3760>>, <<3762, 3763>>, <<3773, 3773>>,
    <<3776, 3780>>, <<3782, 3782>>, <<3792, 3801>>, <<3804, 3807>>, <<3840, 3840>>, <<3872, 3891>>,
    <<3904, 3911>>, <<3913, 3948>>, <<3976, 3980>>, <<4096, 4138>>, <<4159, 4169>>, <<4176, 4181>>,
    <<4186, 4189>>, <<4193, 4193>>, <<4197, 4198>>, <<4206, 4208>>, <<4213, 4225>>, <<4238, 4238>>,
    <<4240, 4249>>, <<4256, 4293>>, <<4295, 4295>>, <<4301, 4301>>, <<4304, 4346>>, <<4348, 4680>>,
    <<4682, 4685>>, <<4688, 4694>>, <<4696, 4696>>, <<4698, 4701>>, <<4704, 4744>>, <<4746, 4749>>,
    <<4752, 4784>>, <<4786, 4789>>, <<4792, 4798>>, <<4800, 4800>>, <<4802, 4805>>, <<4808, 4822>>,
    <<4824, 4880>>, <<4882, 4885>>, <<4888, 4954>>, <<4969, 4988>>, <<4992, 5007>>, <<5024, 5109>>,
    <<5112, 5117>>, <<5121, 5740>>, <<5743, 5759>>, <<5761, 5786>>, <<5792, 5866>>, <<5870, 5880>>,
    <<5888, 5905>>, <<5919, 5937>>, <<5952, 5969>>, <<5984, 5996>>, <<5998, 6000>>, <<6016, 6067>>,
    <<6103, 6103>>, <<6108, 6108>>, <<6112, 6121>>, <<6128, 6137>>, <<6160, 6169>>, <<6176, 6264>>,
    <<6272, 6276>>, <<6279, 6312>>, <<6314, 6314>>, <<6320, 6389>>, <<6400, 6430>>, <<6470, 6509>>,
    <<6512, 6516>>, <<6528, 6571>>, <<6576, 6601>>, <<6608, 6618>>, <<6656, 6678>>, <<6688, 6740>>,
    <<6784, 6793>>, <<6800, 6809>>, <<6823, 6823>>, <<6917, 6963>>, <<6981, 6988>>, <<6992, 7001>>,
    <<7043, 7072>>, <<7086, 7141>>, <<7168, 7203>>, <<7232, 7241>>, <<7245, 7293>>, <<7296, 7304>>,
    <<7312, 7354>>, <<7357, 7359>>, <<7401, 7404>>, <<7406, 7411>>, <<7413, 7414>>, <<7418, 7418>>,
    <<7424, 7615>>, <<7680, 7957>>, <<7960, 7965>>, <<7968, 8005>>, <<8008, 8013>>, <<8016, 8023>>,
    <<8025, 8025>>, <<8027, 8027>>, <<8029, 8029>>, <<8031, 8061>>, <<8064, 8116>>, <<8118, 8124>>,
    <<8126, 8126>>, <<8130, 8132>>, <<8134, 8140>>, <<8144, 8147>>, <<8150, 8155>>, <<8160, 8172>>,
    <<8178, 8180>>, <<8182, 8188>>, <<8304, 8305>>, <<8308, 8313>>, <<8319, 8329>>, <<8336, 8348>>,
    <<8450, 8450>>, <<8455, 8455>>, <<8458, 8467>>, <<8469, 8469>>, <<8473, 8477>>, <<8484, 8484>>,
    <<8486, 8486>>, <<8488, 8488>>, <<8490, 8493>>, <<8495, 8505>>, <<8508, 8511>>, <<8517, 8521>>,
    <<8526, 8526>>, <<8528, 8585>>, <<9312, 9371>>, <<9450, 9471>>, <<10102, 10131>>, <<11264, 11492>>,
    <<11499, 11502>>, <<11506, 11507>>, <<11517, 11517>>, <<11520, 11557>>, <<11559, 11559>>, <<11565, 11565>>,
    <<11568, 11623>>, <<11631, 11631>>, <<11648, 11670>>, <<11680, 11686>>, <<11688, 11694>>, <<11696, 11702>>,
    <<11704, 11710>>, <<11712, 11718>>, <<11720, 11726>>, <<11728, 11734>>, <<11736, 11742>>, <<11823, 11823>>,
    <<12293, 12295>>, <<12321, 12329>>, <<12337, 12341>>, <<12344, 12348>>, <<12353, 12438>>, <<12445, 12447>>,
    <<12449, 12538>>, <<12540, 12543>>, <<12549, 12591>>, <<12593, 12686>>, <<12690, 12693>>, <<12704, 12735>>,
    <<12784, 12799>>, <<12832, 12841>>, <<12872, 12879>>, <<12881, 12895>>, <<12928, 12937>>, <<12977, 12991>>,
    <<13312, 19903>>, <<19968, 42124>>, <<42192, 42237>>, <<42240, 42508>>, <<42512, 42539>>, <<42560, 42606>>,
    <<42623, 42653>>, <<42656, 42735>>, <<42775, 42783>>, <<42786, 42888>>, <<42891, 42954>>, <<42960, 42961>>,
    <<42963, 42963>>, <<42965, 42969>>, <<42994, 43009>>, <<43011, 43013>>, <<43015, 43018>>, <<43020, 43042>>,
    <<43056, 43061>>, <<43072, 43123>>, <<43138, 43187>>, <<43216, 43225>>, <<43250, 43255>>, <<43259, 43259>>,
    <<43261, 43262>>, <<43264, 43301>>, <<43312, 43334>>, <<43360, 43388>>, <<43396, 43442>>, <<43471, 43481>>,
    <<43488, 43492>>, <<43494, 43518>>, <<43520, 43560>>, <<43584, 43586>>, <<43588, 43595>>, <<43600, 43609>>,
    <<43616, 43638>>, <<43642, 43642>>, <<43646, 43695>>, <<43697, 43697>>, <<43701, 43702>>, <<43705, 43709>>,
    <<43712, 43712>>, <<43714, 43714>>, <<43739, 43741>>, <<43744, 43754>>, <<43762, 43764>>, <<43777, 43782>>,
    <<43785, 43790>>, <<43793, 43798>>, <<43808, 43814>>, <<43816, 43822>>, <<43824, 43866>>, <<43868, 43881>>,
    <<43888, 44002>>, <<44016, 44025>>, <<44032, 55203>>, <<55216, 55238>>, <<55243, 55291>>, <<63744, 64109>>,
    <<64112, 64217>>, <<64256, 64262>>, <<64275, 64279>>, <<64285, 64285>>, <<64287, 64296>>, <<64298, 64310>>,
    <<64312, 64316>>, <<64318, 64318>>, <<64320, 64321>>, <<64323, 64324>>, <<64326, 64433>>, <<64467, 64829>>,
    <<64848, 64911>>, <<64914, 64967>>, <<65008, 65019>>, <<65136, 65140>>, <<65142, 65276>>, <<65296, 65305>>,
    <<65313, 65338>>, <<65345, 65370>>, <<65382, 65470>>, <<65474, 65479>>, <<65482, 65487>>, <<65490, 65495>>,
    <<65498, 65500>>, <<65536, 65547>>, <<65549, 65574>>, <<65576, 65594>>, <<65596, 65597>>, <<65599, 65613>>,
    <<65616, 65629>>, <<65664, 65786>>, <<65799, 65843>>, <<65856, 65912>>, <<65930, 65931>>, <<66176, 66204>>,
    <<66208, 66256>>, <<66273, 66299>>, <<66304, 66339>>, <<66349, 66378>>, <<66384, 66421>>, <<66432, 66461>>,
    <<66464, 66499>>, <<66504, 66511>>, <<66513, 66517>>, <<66560, 66717>>, <<66720, 66729>>, <<66736, 66771>>,
    <<66776, 66811>>, <<66816, 66855>>, <<66864, 66915>>, <<66928, 66938>>, <<66940, 66954>>, <<66956, 66962>>,
    <<66964, 66965>>, <<66967, 66977>>, <<66979, 66993>>, <<66995, 67001>>, <<67003, 67004>>, <<67072, 67382>>,
    <<67392, 67413>>, <<67424, 67431>>, <<67456, 67461>>, <<67463, 67504>>, <<67506, 67514>>, <<67584, 67589>>,
    <<67592, 67592>>, <<67594, 67637>>, <<67639, 67640>>, <<67644, 67644>>, <<67647, 67669>>, <<67672, 67702>>,
    <<67705, 67742>>, <<67751, 67759>>, <<67808, 67826>>, <<67828, 67829>>, <<67835, 67867>>, <<67872, 67897>>,
    <<67968, 68023>>, <<68028, 68047>>, <<68050, 68096>>, <<68112, 68115>>, <<68117, 68119>>, <<68121, 68149>>,
    <<68160, 68168>>, <<68192, 68222>>, <<68224, 68255>>, <<68288, 68295>>, <<68297, 68324>>, <<68331, 68335>>,
    <<68352, 68405>>, <<68416, 68437>>, <<68440, 68466>>, <<68472, 68497>>, <<68521, 68527>>, <<68608, 68680>>,
    <<68736, 68786>>, <<68800, 68850>>, <<68858, 68899>>, <<68912, 68921>>, <<69216, 69246>>, <<69248, 69289>>,
    <<69296, 69297>>, <<69376, 69415>>, <<69424, 69445>>, <<69457, 69460>>, <<69488, 69505>>, <<69552, 69579>>,
    <<69600, 69622>>, <<69635, 69687>>, <<69714, 69743>>, <<69745, 69746>>, <<69749, 69749>>, <<69763, 69807>>,
    <<69840, 69864>>, <<69872, 69881>>, <<69891, 69926>>, <<69942, 69951>>, <<69956, 69956>>, <<69959, 69959>>,
    <<69968, 70002>>, <<70006, 70006>>, <<70019, 70066>>, <<70081, 70084>>, <<70096, 70106>>, <<70108, 70108>>,
    <<70113, 70132>>, <<70144, 70161>>, <<70163, 70187>>, <<70272, 70278>>, <<70280, 70280>>, <<70282, 70285>>,
    <<70287, 70301>>, <<70303, 70312>>, <<70320, 70366>>, <<70384, 70393>>, <<70405, 70412>>, <<70415, 70416>>,
    <<70419, 70440>>, <<70442, 70448>>, <<70450, 70451>>, <<70453, 70457>>, <<70461, 70461>>, <<70480, 70480>>,
    <<70493, 70497>>, <<70656, 70708>>, <<70727, 70730>>, <<70736, 70745>>, <<70751, 70753>>, <<70784, 70831>>,
    <<70852, 70853>>, <<70855, 70855>>, <<70864, 70873>>, <<71040, 71086>>, <<71128, 71131>>, <<71168, 71215>>,
    <<71236, 71236>>, <<71248, 71257>>, <<71296, 71338>>, <<71352, 71352>>, <<71360, 71369>>, <<71424, 71450>>,
    <<71472, 71483>>, <<71488, 71494>>, <<71680, 71723>>, <<71840, 71922>>, <<71935, 71942>>, <<71945, 71945>>,
    <<71948, 71955>>, <<71957, 71958>>, <<71960, 71983>>, <<71999, 71999>>, <<72001, 72001>>, <<72016, 72025>>,
    <<72096, 72103>>, <<72106, 72144>>, <<72161, 72161>>, <<72163, 72163>>, <<72192, 72192>>, <<72203, 72242>>,
    <<72250, 72250>>, <<72272, 72272>>, <<72284, 72329>>, <<72349, 72349>>, <<72368, 72440>>, <<72704, 72712>>,
    <<72714, 72750>>, <<72768, 72768>>, <<72784, 72812>>, <<72818, 72847>>, <<72960, 72966>>, <<72968, 72969>>,
    <<72971, 73008>>, <<73030, 73030>>, <<73040, 73049>>, <<73056, 73061>>, <<73063, 73064>>, <<73066, 73097>>,
    <<73112, 73112>>, <<73120, 73129>>, <<73440, 73458>>, <<73648, 73648>>, <<73664, 73684>>, <<73728, 74649>>,
    <<74752, 74862>>, <<74880, 75075>>, <<77712, 77808>>, <<77824, 78894>>, <<82944, 83526>>, <<92160, 92728>>,
    <<92736, 92766>>, <<92768, 92777>>, <<92784, 92862>>, <<92864, 92873>>, <<92880, 92909>>, <<92928, 92975>>,
    <<92992, 92995>>, <<93008, 93017>>, <<93019, 93025>>, <<93027, 93047>>, <<93053, 93071>>, <<93760, 93846>>,
    <<93952, 94026>>, <<94032, 94032>>, <<94099, 94111>>, <<94176, 94177>>, <<94179, 94179>>, <<94208, 100343>>,
    <<100352, 101589>>, <<101632, 101640>>, <<110576, 110579>>, <<110581, 110587>>, <<110589, 110590>>, <<110592, 110882>>,
    <<110928, 110930>>, <<110948, 110951>>, <<110960, 111355>>, <<113664, 113770>>, <<113776, 113788>>, <<113792, 113800>>,
    <<113808, 113817>>, <<119520, 119539>>, <<119648, 119672>>, <<119808, 119892>>, <<119894, 119964>>, <<119966, 119967>>,
    <<119970, 119970>>, <<119973, 119974>>, <<119977, 119980>>, <<119982, 119993>>, <<119995, 119995>>, <<119997, 120003>>,
    <<120005, 120069>>, <<120071, 120074>>, <<120077, 120084>>, <<120086, 120092>>, <<120094, 120121>>, <<120123, 120126>>,
    <<120128, 120132>>, <<120134, 120134>>, <<120138, 120144>>, <<120146, 120485>>, <<120488, 120512>>, <<120514, 120538>>,
    <<120540, 120570>>, <<120572, 120596>>, <<120598, 120628>>, <<120630, 120654>>, <<120656, 120686>>, <<120688, 120712>>,
    <<120714, 120744>>, <<120746, 120770>>, <<120772, 120779>>, <<120782, 120831>>, <<122624, 122654>>, <<123136, 123180>>,
    <<123191, 123197>>, <<123200, 123209>>, <<123214, 123214>>, <<123536, 123565>>, <<123584, 123627>>, <<123632, 123641>>,
    <<124896, 124902>>, <<124904, 124907>>, <<124909, 124910>>, <<124912, 124926>>, <<124928, 125124>>, <<125127, 125135>>,
    <<125184, 125251>>, <<125259, 125259>>, <<125264, 125273>>, <<126065, 126123>>, <<126125, 126127>>, <<126129, 126132>>,
    <<126209, 126253>>, <<126255, 126269>>, <<126464, 126467>>, <<126469, 126495>>, <<126497, 126498>>, <<126500, 126500>>,
    <<126503, 126503>>, <<126505, 126514>>, <<126516, 126519>>, <<126521, 126521>>, <<126523, 126523>>, <<126530, 126530>>,
    <<126535, 126535>>, <<126537, 126537>>, <<126539, 126539>>, <<126541, 126543>>, <<126545, 126546>>, <<126548, 126548>>,
    <<126551, 126551>>, <<126553, 126553>>, <<126555, 126555>>, <<126557, 126557>>, <<126559, 126559>>, <<126561, 126562>>,
    <<126564, 126564>>, <<126567, 126570>>, <<126572, 126578>>, <<126580, 126583>>, <<126585, 126588>>, <<126590, 126590>>,
    <<126592, 126601>>, <<126603, 126619>>, <<126625, 126627>>, <<126629, 126633>>, <<126635, 126651>>, <<127232, 127244>>,
    <<130032, 130041>>, <<131072, 173791>>, <<173824, 177976>>, <<177984, 178205>>, <<178208, 183969>>, <<183984, 191456>>,
    <<194560, 195101>>, <<196608, 201546>>
}

\* str.lower(): the code points lowered to one other code point
LowerRuns == {
    <<65, 90, 1, 32>>, <<192, 214, 1, 32>>, <<216, 222, 1, 32>>, <<256, 302, 2, 1>>, <<306, 310, 2, 1>>,
    <<313, 327, 2, 1>>, <<330, 374, 2, 1>>, <<376, 376, 1, -121>>, <<377, 381, 2, 1>>, <<385, 385, 1, 210>>,
    <<386, 388, 2, 1>>, <<390, 390, 1, 206>>, <<391, 391, 1, 1>>, <<393, 394, 1, 205>>, <<395, 395, 1, 1>>,
    <<398, 398, 1, 79>>, <<399, 399, 1, 202>>, <<400, 400, 1, 203>>, <<401, 401, 1, 1>>, <<403, 403, 1, 205>>,
    <<404, 404, 1, 207>>, <<406, 406, 1, 211>>, <<407, 407, 1, 209>>, <<408, 408, 1, 1>>, <<412, 412, 1, 211>>,
    <<413, 413, 1, 213>>, <<415, 415, 1, 214>>, <<416, 420, 2, 1>>, <<422, 422, 1, 218>>, <<423, 423, 1, 1>>,
    <<425, 425, 1, 218>>, <<428, 428, 1, 1>>, <<430, 430, 1, 218>>, <<431, 431, 1, 1>>, <<433, 434, 1, 217>>,
    <<435, 437, 2, 1>>, <<439, 439, 1, 219>>, <<440, 440, 1, 1>>, <<444, 444, 1, 1>>, <<452, 452, 1, 2>>,
    <<453, 453, 1, 1>>, <<455, 455, 1, 2>>, <<456, 456, 1, 1>>, <<458, 458, 1, 2>>, <<459, 475, 2, 1>>,
    <<478, 494, 2, 1>>, <<497, 497, 1, 2>>, <<498, 500, 2, 1>>, <<502, 502, 1, -97>>, <<503, 503, 1, -56>>,
    <<504, 542, 2, 1>>, <<544, 544, 1, -130>>, <<546, 562, 2, 1>>, <<570, 570, 1, 10795>>, <<571, 571, 1, 1>>,
    <<573, 573, 1, -163>>, <<574, 574, 1, 10792>>, <<577, 577, 1, 1>>, <<579, 579, 1, -195>>, <<580, 580, 1, 69>>,
    <<581, 581, 1, 71>>, <<582, 590, 2, 1>>, <<880, 882, 2, 1>>, <<886, 886, 1, 1>>, <<895, 895, 1, 116>>,
    <<902, 902, 1, 38>>, <<904, 906, 1, 37>>, <<908, 908, 1, 64>>, <<910, 911, 1, 63>>, <<913, 929, 1, 32>>,
    <<931, 939, 1, 32>>, <<975, 975, 1, 8>>, <<984, 1006, 2, 1>>, <<1012, 1012, 1, -60>>, <<1015, 1015, 1, 1>>,
    <<1017, 1017, 1, -7>>, <<1018, 1018, 1, 1>>, <<1021, 1023, 1, -130>>, <<1024, 1039, 1, 80>>, <<1040, 1071, 1, 32>>,
    <<1120, 1152, 2, 1>>, <<1162, 1214, 2, 1>>, <<1216, 1216, 1, 15>>, <<1217, 1229, 2, 1>>, <<1232, 1326, 2, 1>>,
    <<1329, 1366, 1, 48>>, <<4256, 4293, 1, 7264>>, <<4295, 4295, 1, 7264>>, <<4301, 4301, 1, 7264>>, <<5024, 5103, 1, 38864>>,
    <<5104, 5109, 1, 8>>, <<7312, 7354, 1, -3008>>, <<7357, 7359, 1, -3008>>, <<7680, 7828, 2, 1>>, <<7838, 7838, 1, -7615>>,
    <<7840, 7934, 2, 1>>, <<7944, 7951, 1, -8>>, <<7960, 7965, 1, -8>>, <<7976, 7983, 1, -8>>, <<7992, 7999, 1, -8>>,
    <<8008, 8013, 1, -8>>, <<8025, 8031, 2, -8>>, <<8040, 8047, 1, -8>>, <<8072, 8079, 1, -8>>, <<8088, 8095, 1, -8>>,
    <<8104, 8111, 1, -8>>, <<8120, 8121, 1, -8>>, <<8122, 8123, 1, -74>>, <<8124, 8124, 1, -9>>, <<8136, 8139, 1, -86>>,
    <<8140, 8140, 1, -9>>, <<8152, 8153, 1, -8>>, <<8154, 8155, 1, -100>>, <<8168, 8169, 1, -8>>, <<8170, 8171, 1, -112>>,
    <<8172, 8172, 1, -7>>, <<8184, 8185, 1, -128>>, <<8186, 8187, 1, -126>>, <<8188, 8188, 1, -9>>, <<8486, 8486, 1, -7517>>,
    <<8490, 8490, 1, -8383>>, <<8491, 8491, 1, -8262>>, <<8498, 8498, 1, 28>>, <<8544, 8559, 1, 16>>, <<8579, 8579, 1, 1>>,
    <<9398, 9423, 1, 26>>, <<11264, 11311, 1, 48>>, <<11360, 11360, 1, 1>>, <<11362, 11362, 1, -10743>>, <<11363, 11363, 1, -3814>>,
    <<11364, 11364, 1, -10727>>, <<11367, 11371, 2, 1>>, <<11373, 11373, 1, -10780>>, <<11374, 11374, 1, -10749>>, <<11375, 11375, 1, -10783>>,
    <<11376, 11376, 1, -10782>>, <<11378, 11378, 1, 1>>, <<11381, 11381, 1, 1>>, <<11390, 11391, 1, -10815>>, <<11392, 11490, 2, 1>>,
    <<11499, 11501, 2, 1>>, <<11506, 11506, 1, 1>>, <<42560, 42604, 2, 1>>, <<42624, 42650, 2, 1>>, <<42786, 42798, 2, 1>>,
    <<42802, 42862, 2, 1>>, <<42873, 42875, 2, 1>>, <<42877, 42877, 1, -35332>>, <<42878, 42886, 2, 1>>, <<42891, 42891, 1, 1>>,
    <<42893, 42893, 1, -42280>>, <<42896, 42898, 2, 1>>, <<42902, 42920, 2, 1>>, <<42922, 42922, 1, -42308>>, <<42923, 42923, 1, -42319>>,
    <<42924, 42924, 1, -42315>>, <<42925, 42925, 1, -42305>>, <<42926, 42926, 1, -42308>>, <<42928, 42928, 1, -42258>>, <<42929, 42929, 1, -42282>>,
    <<42930, 42930, 1, -42261>>, <<42931, 42931, 1, 928>>, <<42932, 42946, 2, 1>>, <<42948, 42948, 1, -48>>, <<42949, 42949, 1, -42307>>,
    <<42950, 42950, 1, -35384>>, <<42951, 42953, 2, 1>>, <<42960, 42960, 1, 1>>, <<42966, 42968, 2, 1>>, <<42997, 42997, 1, 1>>,
    <<65313, 65338, 1, 32>>, <<66560, 66599, 1, 40>>, <<66736, 66771, 1, 40>>, <<66928, 66938, 1, 39>>, <<66940, 66954, 1, 39>>,
    <<66956, 66962, 1, 39>>, <<66964, 66965, 1, 39>>, <<68736, 68786, 1, 64>>, <<71840, 71871, 1, 32>>, <<93760, 93791, 1, 32>>,
    <<125184, 125217, 1, 34>>
}

\* str.lower(), final sigma: cased code points that are not case-ignorable
CasedRanges == {
    <<65, 90>>, <<97, 122>>, <<170, 170>>, <<181, 181>>, <<186, 186>>, <<192, 214>>,
    <<216, 246>>, <<248, 442>>, <<444, 447>>, <<452, 659>>, <<661, 687>>, <<880, 883>>,
    <<886, 887>>, <<891, 893>>, <<895, 895>>, <<902, 902>>, <<904, 906>>, <<908, 908>>,
    <<910, 929>>, <<931, 1013>>, <<1015, 1153>>, <<1162, 1327>>, <<1329, 1366>>, <<1376, 1416>>,
    <<4256, 4293>>, <<4295, 4295>>, <<4301, 4301>>, <<4304, 4346>>, <<4349, 4351>>, <<5024, 5109>>,
    <<5112, 5117>>, <<7296, 7304>>, <<7312, 7354>>, <<7357, 7359>>, <<7424, 7467>>, <<7531, 7543>>,
    <<7545, 7578>>, <<7680, 7957>>, <<7960, 7965>>, <<7968, 8005>>, <<8008, 8013>>, <<8016, 8023>>,
    <<8025, 8025>>, <<8027, 8027>>, <<8029, 8029>>, <<8031, 8061>>, <<8064, 8116>>, <<8118, 8124>>,
    <<8126, 8126>>, <<8130, 8132>>, <<8134, 8140>>, <<8144, 8147>>, <<8150, 8155>>, <<8160, 8172>>,
    <<8178, 8180>>, <<8182, 8188>>, <<8450, 8450>>, <<8455, 8455>>, <<8458, 8467>>, <<8469, 8469>>,
    <<8473, 8477>>, <<8484, 8484>>, <<8486, 8486>>, <<8488, 8488>>, <<8490, 8493>>, <<8495, 8500>>,
    <<8505, 8505>>, <<8508, 8511>>, <<8517, 8521>>, <<8526, 8526>>, <<8544, 8575>>, <<8579, 8580>>,
    <<9398, 9449>>, <<11264, 11387>>, <<11390, 11492>>, <<11499, 11502>>, <<11506, 11507>>, <<11520, 11557>>,
    <<11559, 11559>>, <<11565, 11565>>, <<42560, 42605>>, <<42624, 42651>>, <<42786, 42863>>, <<42865, 42887>>,
    <<42891, 42894>>, <<42896, 42954>>, <<42960, 42961>>, <<42963, 42963>>, <<42965, 42969>>, <<42997, 42998>>,
    <<43002, 43002>>, <<43824, 43866>>, <<43872, 43880>>, <<43888, 43967>>, <<64256, 64262>>, <<64275, 64279>>,
    <<65313, 65338>>, <<65345, 65370>>, <<66560, 66639>>, <<66736, 66771>>, <<66776, 66811>>, <<66928, 66938>>,
    <<66940, 66954>>, <<66956, 66962>>, <<66964, 66965>>, <<66967, 66977>>, <<66979, 66993>>, <<66995, 67001>>,
    <<67003, 67004>>, <<68736, 68786>>, <<68800, 68850>>, <<71840, 71903>>, <<93760, 93823>>, <<119808, 119892>>,
    <<119894, 119964>>, <<119966, 119967>>, <<119970, 119970>>, <<119973, 119974>>, <<119977, 119980>>, <<119982, 119993>>,
    <<119995, 119995>>, <<119997, 120003>>, <<120005, 120069>>, <<120071, 120074>>, <<120077, 120084>>, <<120086, 120092>>,
    <<120094, 120121>>, <<120123, 120126>>, <<120128, 120132>>, <<120134, 120134>>, <<120138, 120144>>, <<120146, 120485>>,
    <<120488, 120512>>, <<120514, 120538>>, <<120540, 120570>>, <<120572, 120596>>, <<120598, 120628>>, <<120630, 120654>>,
    <<120656, 120686>>, <<120688, 120712>>, <<120714, 120744>>, <<120746, 120770>>, <<120772, 120779>>, <<122624, 122633>>,
    <<122635, 122654>>, <<125184, 125251>>, <<127280, 127305>>, <<127312, 127337>>, <<127344, 127369>>
}

\* str.lower(), final sigma: case-ignorable code points
CaseIgnorableRanges == {
    <<39, 39>>, <<46, 46>>, <<58, 58>>, <<94, 94>>, <<96, 96>>, <<168, 168>>,
    <<173, 173>>, <<175, 175>>, <<180, 180>>, <<183, 184>>, <<688, 879>>, <<884, 885>>,
    <<890, 890>>, <<900, 901>>, <<903, 903>>, <<1155, 1161>>, <<1369, 1369>>, <<1375, 1375>>,
    <<1425, 1469>>, <<1471, 1471>>, <<1473, 1474>>, <<1476, 1477>>, <<1479, 1479>>, <<1524, 1524>>,
    <<1536, 1541>>, <<1552, 1562>>, <<1564, 1564>>, <<1600, 1600>>, <<1611, 1631>>, <<1648, 1648>>,
    <<1750, 1757>>, <<1759, 1768>>, <<1770, 1773>>, <<1807, 1807>>, <<1809, 1809>>, <<1840, 1866>>,
    <<1958, 1968>>, <<2027, 2037>>, <<2042, 2042>>, <<2045, 2045>>, <<2070, 2093>>, <<2137, 2139>>,
    <<2184, 2184>>, <<2192, 2193>>, <<2200, 2207>>, <<2249, 2306>>, <<2362, 2362>>, <<2364, 2364>>,
    <<2369, 2376>>, <<2381, 2381>>, <<2385, 2391>>, <<2402, 2403>>, <<2417, 2417>>, <<2433, 2433>>,
    <<2492, 2492>>, <<2497, 2500>>, <<2509, 2509>>, <<2530, 2531>>, <<2558, 2558>>, <<2561, 2562>>,
    <<2620, 2620>>, <<2625, 2626>>, <<2631, 2632>>, <<2635, 2637>>, <<2641, 2641>>, <<2672, 2673>>,
    <<2677, 2677>>, <<2689, 2690>>, <<2748, 2748>>, <<2753, 2757>>, <<2759, 2760>>, <<2765, 2765>>,
    <<2786, 2787>>, <<2810, 2815>>, <<2817, 2817>>, <<2876, 2876>>, <<2879, 2879>>, <<2881, 2884>>,
    <<2893, 2893>>, <<2901, 2902>>, <<2914, 2915>>, <<2946, 2946>>, <<3008, 3008>>, <<3021, 3021>>,
    <<3072, 3072>>, <<3076, 3076>>, <<3132, 3132>>, <<3134, 3136>>, <<3142, 3144>>, <<3146, 3149>>,
    <<3157, 3158>>, <<3170, 3171>>, <<3201, 3201>>, <<3260, 3260>>, <<3263, 3263>>, <<3270, 3270>>,
    <<3276, 3277>>, <<3298, 3299>>, <<3328, 3329>>, <<3387, 3388>>, <<3393, 3396>>, <<3405, 3405>>,
    <<3426, 3427>>, <<3457, 3457>>, <<3530, 3530>>, <<3538, 3540>>, <<3542, 3542>>, <<3633, 3633>>,
    <<3636, 3642>>, <<3654, 3662>>, <<3761, 3761>>, <<3764, 3772>>, <<3782, 3782>>, <<3784, 3789>>,
    <<3864, 3865>>, <<3893, 3893>>, <<3895, 3895>>, <<3897, 3897>>, <<3953, 3966>>, <<3968, 3972>>,
    <<3974, 3975>>, <<3981, 3991>>, <<3993, 4028>>, <<4038, 4038>>, <<4141, 4144>>, <<4146, 4151>>,
    <<4153, 4154>>, <<4157, 4158>>, <<4184, 4185>>, <<4190, 4192>>, <<4209, 4212>>, <<4226, 4226>>,
    <<4229, 4230>>, <<4237, 4237>>, <<4253, 4253>>, <<4348, 4348>>, <<4957, 4959>>, <<5906, 5908>>,
    <<5938, 5939>>, <<5970, 5971>>, <<6002, 6003>>, <<6068, 6069>>, <<6071, 6077>>, <<6086, 6086>>,
    <<6089, 6099>>, <<6103, 6103>>, <<6109, 6109>>, <<6155, 6159>>, <<6211, 6211>>, <<6277, 6278>>,
    <<6313, 6313>>, <<6432, 6434>>, <<6439, 6440>>, <<6450, 6450>>, <<6457, 6459>>, <<6679, 6680>>,
    <<6683, 6683>>, <<6742, 6742>>, <<6744, 6750>>, <<6752, 6752>>, <<6754, 6754>>, <<6757, 6764>>,
    <<6771, 6780>>, <<6783, 6783>>, <<6823, 6823>>, <<6832, 6862>>, <<6912, 6915>>, <<6964, 6964>>,
    <<6966, 6970>>, <<6972, 6972>>, <<6978, 6978>>, <<7019, 7027>>, <<7040, 7041>>, <<7074, 7077>>,
    <<7080, 7081>>, <<7083, 7085>>, <<7142, 7142>>, <<7144, 7145>>, <<7149, 7149>>, <<7151, 7153>>,
    <<7212, 7219>>, <<7222, 7223>>, <<7288, 7293>>, <<7376, 7378>>, <<7380, 7392>>, <<7394, 7400>>,
    <<7405, 7405>>, <<7412, 7412>>, <<7416, 7417>>, <<7468, 7530>>, <<7544, 7544>>, <<7579, 7679>>,
    <<8125, 8125>>, <<8127, 8129>>, <<8141, 8143>>, <<8157, 8159>>, <<8173, 8175>>, <<8189, 8190>>,
    <<8203, 8207>>, <<8216, 8217>>, <<8228, 8228>>, <<8231, 8231>>, <<8234, 8238>>, <<8288, 8292>>,
    <<8294, 8303>>, <<8305, 8305>>, <<8319, 8319>>, <<8336, 8348>>, <<8400, 8432>>, <<11388, 11389>>,
    <<11503, 11505>>, <<11631, 11631>>, <<11647, 11647>>, <<11744, 11775>>, <<11823, 11823>>, <<12293, 12293>>,
    <<12330, 12333>>, <<12337, 12341>>, <<12347, 12347>>, <<12441, 12446>>, <<12540, 12542>>, <<40981, 40981>>,
    <<42232, 42237>>, <<42508, 42508>>, <<42607, 42610>>, <<42612, 42621>>, <<42623, 42623>>, <<42652, 42655>>,
    <<42736, 42737>>, <<42752, 42785>>, <<42864, 42864>>, <<42888, 42890>>, <<42994, 42996>>, <<43000, 43001>>,
    <<43010, 43010>>, <<43014, 43014>>, <<43019, 43019>>, <<43045, 43046>>, <<43052, 43052>>, <<43204, 43205>>,
    <<43232, 43249>>, <<43263, 43263>>, <<43302, 43309>>, <<43335, 43345>>, <<43392, 43394>>, <<43443, 43443>>,
    <<43446, 43449>>, <<43452, 43453>>, <<43471, 43471>>, <<43493, 43494>>, <<43561, 43566>>, <<43569, 43570>>,
    <<43573, 43574>>, <<43587, 43587>>, <<43596, 43596>>, <<43632, 43632>>, <<43644, 43644>>, <<43696, 43696>>,
    <<43698, 43700>>, <<43703, 43704>>, <<43710, 43711>>, <<43713, 43713>>, <<43741, 43741>>, <<43756, 43757>>,
    <<43763, 43764>>, <<43766, 43766>>, <<43867, 43871>>, <<43881, 43883>>, <<44005, 44005>>, <<44008, 44008>>,
    <<44013, 44013>>, <<64286, 64286>>, <<64434, 64450>>, <<65024, 65039>>, <<65043, 65043>>, <<65056, 65071>>,
    <<65106, 65106>>, <<65109, 65109>>, <<65279, 65279>>, <<65287, 65287>>, <<65294, 65294>>, <<65306, 65306>>,
    <<65342, 65342>>, <<65344, 65344>>, <<65392, 65392>>, <<65438, 65439>>, <<65507, 65507>>, <<65529, 65531>>,
    <<66045, 66045>>, <<66272, 66272>>, <<66422, 66426>>, <<67456, 67461>>, <<67463, 67504>>, <<67506, 67514>>,
    <<68097, 68099>>, <<68101, 68102>>, <<68108, 68111>>, <<68152, 68154>>, <<68159, 68159>>, <<68325, 68326>>,
    <<68900, 68903>>, <<69291, 69292>>, <<69446, 69456>>, <<69506, 69509>>, <<69633, 69633>>, <<69688, 69702>>,
    <<69744, 69744>>, <<69747, 69748>>, <<69759, 69761>>, <<69811, 69814>>, <<69817, 69818>>, <<69821, 69821>>,
    <<69826, 69826>>, <<69837, 69837>>, <<69888, 69890>>, <<69927, 69931>>, <<69933, 69940>>, <<70003, 70003>>,
    <<70016, 70017>>, <<70070, 70078>>, <<70089, 70092>>, <<70095, 70095>>, <<70191, 70193>>, <<70196, 70196>>,
    <<70198, 70199>>, <<70206, 70206>>, <<70367, 70367>>, <<70371, 70378>>, <<70400, 70401>>, <<70459, 70460>>,
    <<70464, 70464>>, <<70502, 70508>>, <<70512, 70516>>, <<70712, 70719>>, <<70722, 70724>>, <<70726, 70726>>,
    <<70750, 70750>>, <<70835, 70840>>, <<70842, 70842>>, <<70847, 70848>>, <<70850, 70851>>, <<71090, 71093>>,
    <<71100, 71101>>, <<71103, 71104>>, <<71132, 71133>>, <<71219, 71226>>, <<71229, 71229>>, <<71231, 71232>>,
    <<71339, 71339>>, <<71341, 71341>>, <<71344, 71349>>, <<71351, 71351>>, <<71453, 71455>>, <<71458, 71461>>,
    <<71463, 71467>>, <<71727, 71735>>, <<71737, 71738>>, <<71995, 71996>>, <<71998, 71998>>, <<72003, 72003>>,
    <<72148, 72151>>, <<72154, 72155>>, <<72160, 72160>>, <<72193, 72202>>, <<72243, 72248>>, <<72251, 72254>>,
    <<72263, 72263>>, <<72273, 72278>>, <<72281, 72283>>, <<72330, 72342>>, <<72344, 72345>>, <<72752, 72758>>,
    <<72760, 72765>>, <<72767, 72767>>, <<72850, 72871>>, <<72874, 72880>>, <<72882, 72883>>, <<72885, 72886>>,
    <<73009, 73014>>, <<73018, 73018>>, <<73020, 73021>>, <<73023, 73029>>, <<73031, 73031>>, <<73104, 73105>>,
    <<73109, 73109>>, <<73111, 73111>>, <<73459, 73460>>, <<78896, 78904>>, <<92912, 92916>>, <<92976, 92982>>,
    <<92992, 92995>>, <<94031, 94031>>, <<94095, 94111>>, <<94176, 94177>>, <<94179, 94180>>, <<110576, 110579>>,
    <<110581, 110587>>, <<110589, 110590>>, <<113821, 113822>>, <<113824, 113827>>, <<118528, 118573>>, <<118576, 118598>>,
    <<119143, 119145>>, <<119155, 119170>>, <<119173, 119179>>, <<119210, 119213>>, <<119362, 119364>>, <<121344, 121398>>,
    <<121403, 121452>>, <<121461, 121461>>, <<121476, 121476>>, <<121499, 121503>>, <<121505, 121519>>, <<122880, 122886>>,
    <<122888, 122904>>, <<122907, 122913>>, <<122915, 122916>>, <<122918, 122922>>, <<123184, 123197>>, <<123566, 123566>>,
    <<123628, 123631>>, <<125136, 125142>>, <<125252, 125259>>, <<127995, 127999>>, <<917505, 917505>>, <<917536, 917631>>,
    <<917760, 917999>>
}

\* re.IGNORECASE: the code points beyond ASCII that equal an ASCII letter,
\* as <<code point, letter>>
IgnoreCaseFolds == {
    <<304, 105>>, <<305, 105>>, <<383, 115>>, <<8490, 107>>
}

InRanges(c, ranges) == \E r \in ranges : r[1] <= c /\ c <= r[2]

\* \d of a str pattern; below 128 only the ASCII digits
IsDigit(c) == IF c < 128 THEN c \in 48..57 ELSE InRanges(c, DigitRanges)

\* \w of a str pattern; below 128 the ASCII letters, the digits and the underscore
IsWord(c) ==
    IF c < 128 THEN c \in 48..57 \/ c \in 65..90 \/ c \in 97..122 \/ c = 95
    ELSE InRanges(c, WordRanges)

InLowerRun(c, r) == r[1] <= c /\ c <= r[2] /\ (c - r[1]) % r[3] = 0

\* the lowering of a code point that lowers to one code point
LowerOne(c) ==
    IF \E r \in LowerRuns : InLowerRun(c, r)
    THEN c + (CHOOSE r \in LowerRuns : InLowerRun(c, r))[4]
    ELSE c

\* a capital sigma is final when a cased code point precedes it and none follows it,
\* case-ignorable code points skipped on both sides
FinalSigma(s, i) ==
    /\ \E j \in 1..(i - 1) :
          /\ InRanges(s[j], CasedRanges)
          /\ \A k \in (j + 1)..(i - 1) : InRanges(s[k], CaseIgnorableRanges)
    /\ ~ \E j \in (i + 1)..Len(s) :
          /\ InRanges(s[j], CasedRanges)
          /\ \A k \in (i + 1)..(j - 1) : InRanges(s[k], CaseIgnorableRanges)

\* what str.lower() writes for the code point at position i
LowerAt(s, i) ==
    IF s[i] < 128 THEN <<IF s[i] \in 65..90 THEN s[i] + 32 ELSE s[i]>>
    ELSE IF s[i] = 304 THEN <<105, 775>>
    ELSE IF s[i] = 931 THEN <<IF FinalSigma(s, i) THEN 962 ELSE 963>>
    ELSE <<LowerOne(s[i])>>

RECURSIVE LowerFrom(_, _)
LowerFrom(s, i) == IF i > Len(s) THEN <<>> ELSE LowerAt(s, i) \o LowerFrom(s, i + 1)

\* str.lower()
Lower(s) ==
    IF \A i \in 1..Len(s) : s[i] # 304
    THEN [i \in 1..Len(s) |-> LowerAt(s, i)[1]]
    ELSE LowerFrom(s, 1)

\* a code point as re.IGNORECASE compares it with the ASCII characters of a pattern
IgnoreCaseOne(c) ==
    IF c \in 65..90 THEN c + 32
    ELSE IF \E f \in IgnoreCaseFolds : f[1] = c
    THEN (CHOOSE f \in IgnoreCaseFolds : f[1] = c)[2]
    ELSE c

\* the text as a pattern compiled with re.IGNORECASE reads it
IgnoreCase(s) == [i \in 1..Len(s) |-> IgnoreCaseOne(s[i])]

(***************************************************************************)
(* Skip rules and priority tiers: the tables of processor.py               *)
(***************************************************************************)
CHAR_BUDGET == 70000
MAX_FILE_CHARS == 6000
TREE_MAX_ENTRIES == 500

SKIP_DIRS == {
    <<110, 111, 100, 101, 95, 109, 111, 100, 117, 108, 101, 115>>,   \* "node_modules"
    <<118, 101, 110, 100, 111, 114>>,   \* "vendor"
    <<100, 105, 115, 116>>,   \* "dist"
    <<98, 117, 105, 108, 100>>,   \* "build"
    <<46, 103, 105, 116>>,   \* ".git"
    <<95, 95, 112, 121, 99, 97, 99, 104, 101, 95, 95>>,   \* "__pycache__"
    <<46, 110, 101, 120, 116>>,   \* ".next"
    <<46, 110, 117, 120, 116>>,   \* ".nuxt"
    <<118, 101, 110, 118>>,   \* "venv"
    <<46, 118, 101, 110, 118>>,   \* ".venv"
    <<101, 110, 118>>,   \* "env"
    <<46, 101, 110, 118>>,   \* ".env"
    <<116, 97, 114, 103, 101, 116>>,   \* "target"
    <<99, 111, 118, 101, 114, 97, 103, 101>>,   \* "coverage"
    <<46, 110, 121, 99, 95, 111, 117, 116, 112, 117, 116>>,   \* ".nyc_output"
    <<101, 103, 103, 115>>,   \* "eggs"
    <<46, 101, 103, 103, 115>>,   \* ".eggs"
    <<42, 46, 101, 103, 103, 45, 105, 110, 102, 111>>,   \* "*.egg-info"
    <<104, 116, 109, 108, 99, 111, 118>>,   \* "htmlcov"
    <<46, 116, 111, 120>>,   \* ".tox"
    <<46, 112, 121, 116, 101, 115, 116, 95, 99, 97, 99, 104, 101>>,   \* ".pytest_cache"
    <<46, 109, 121, 112, 121, 95, 99, 97, 99, 104, 101>>,   \* ".mypy_cache"
    <<46, 114, 117, 102, 102, 95, 99, 97, 99, 104, 101>>,   \* ".ruff_cache"
    <<115, 105, 116, 101, 45, 112, 97, 99, 107, 97, 103, 101, 115>>,   \* "site-packages"
    <<98, 111, 119, 101, 114, 95, 99, 111, 109, 112, 111, 110, 101, 110, 116, 115>>,   \* "bower_components"
    <<106, 115, 112, 109, 95, 112, 97, 99, 107, 97, 103, 101, 115>>   \* "jspm_packages"
}

SKIP_EXTENSIONS == {
    <<46, 112, 110, 103>>,   \* ".png"
    <<46, 106, 112, 103>>,   \* ".jpg"
    <<46, 106, 112, 101, 103>>,   \* ".jpeg"
    <<46, 103, 105, 102>>,   \* ".gif"
    <<46, 115, 118, 103>>,   \* ".svg"
    <<46, 105, 99, 111>>,   \* ".ico"
    <<46, 119, 101, 98, 112>>,   \* ".webp"
    <<46, 98, 109, 112>>,   \* ".bmp"
    <<46, 116, 105, 102, 102>>,   \* ".tiff"
    <<46, 109, 112, 52>>,   \* ".mp4"
    <<46, 109, 112, 51>>,   \* ".mp3"
    <<46, 119, 97, 118>>,   \* ".wav"
    <<46, 111, 103, 103>>,   \* ".ogg"
    <<46, 109, 111, 118>>,   \* ".mov"
    <<46, 97, 118, 105>>,   \* ".avi"
    <<46, 119, 111, 102, 102>>,   \* ".woff"
    <<46, 119, 111, 102, 102, 50>>,   \* ".woff2"
    <<46, 116, 116, 102>>,   \* ".ttf"
    <<46, 101, 111, 116>>,   \* ".eot"
    <<46, 111, 116, 102>>,   \* ".otf"
    <<46, 112, 100, 102>>,   \* ".pdf"
    <<46, 100, 111, 99>>,   \* ".doc"
    <<46, 100, 111, 99, 120>>,   \* ".docx"
    <<46, 120, 108, 115>>,   \* ".xls"
    <<46, 120, 108, 115, 120>>,   \* ".xlsx"
    <<46, 112, 112, 116>>,   \* ".ppt"
    <<46, 112, 112, 116, 120>>,   \* ".pptx"
    <<46, 122, 105, 112>>,   \* ".zip"
    <<46, 116, 97, 114>>,   \* ".tar"
    <<46, 103, 122>>,   \* ".gz"
    <<46, 98, 122, 50>>,   \* ".bz2"
    <<46, 55, 122>>,   \* ".7z"
    <<46, 114, 97, 114>>,   \* ".rar"
    <<46, 120, 122>>,   \* ".xz"
    <<46, 101, 120, 101>>,   \* ".exe"
    <<46, 100, 108, 108>>,   \* ".dll"
    <<46, 115, 111>>,   \* ".so"
    <<46, 100, 121, 108, 105, 98>>,   \* ".dylib"
    <<46, 97>>,   \* ".a"
    <<46, 108, 105, 98>>,   \* ".lib"
    <<46, 112, 121, 99>>,   \* ".pyc"
    <<46, 112, 121, 111>>,   \* ".pyo"
    <<46, 99, 108, 97, 115, 115>>,   \* ".class"
    <<46, 106, 97, 114>>,   \* ".jar"
    <<46, 119, 97, 114>>,   \* ".war"
    <<46, 98, 105, 110>>,   \* ".bin"
    <<46, 100, 97, 116>>,   \* ".dat"
    <<46, 100, 98>>,   \* ".db"
    <<46, 115, 113, 108, 105, 116, 101>>,   \* ".sqlite"
    <<46, 115, 113, 108, 105, 116, 101, 51>>,   \* ".sqlite3"
    <<46, 108, 111, 99, 107>>   \* ".lock"
}

SKIP_FILENAMES == {
    <<112, 97, 99, 107, 97, 103, 101, 45, 108, 111, 99, 107, 46, 106, 115, 111, 110>>,   \* "package-lock.json"
    <<121, 97, 114, 110, 46, 108, 111, 99, 107>>,   \* "yarn.lock"
    <<112, 111, 101, 116, 114, 121, 46, 108, 111, 99, 107>>,   \* "poetry.lock"
    <<80, 105, 112, 102, 105, 108, 101, 46, 108, 111, 99, 107>>,   \* "Pipfile.lock"
    <<99, 111, 109, 112, 111, 115, 101, 114, 46, 108, 111, 99, 107>>,   \* "composer.lock"
    <<71, 101, 109, 102, 105, 108, 101, 46, 108, 111, 99, 107>>,   \* "Gemfile.lock"
    <<99, 97, 114, 103, 111, 46, 108, 111, 99, 107>>,   \* "cargo.lock"
    <<112, 110, 112, 109, 45, 108, 111, 99, 107, 46, 121, 97, 109, 108>>,   \* "pnpm-lock.yaml"
    <<115, 104, 114, 105, 110, 107, 119, 114, 97, 112, 46, 106, 115, 111, 110>>,   \* "shrinkwrap.json"
    <<110, 112, 109, 45, 115, 104, 114, 105, 110, 107, 119, 114, 97, 112, 46, 106, 115, 111, 110>>,   \* "npm-shrinkwrap.json"
    <<46, 68, 83, 95, 83, 116, 111, 114, 101>>,   \* ".DS_Store"
    <<84, 104, 117, 109, 98, 115, 46, 100, 98>>,   \* "Thumbs.db"
    <<46, 103, 105, 116, 107, 101, 101, 112>>   \* ".gitkeep"
}

TIER2_NAMES == {
    <<112, 97, 99, 107, 97, 103, 101, 46, 106, 115, 111, 110>>,   \* "package.json"
    <<112, 121, 112, 114, 111, 106, 101, 99, 116, 46, 116, 111, 109, 108>>,   \* "pyproject.toml"
    <<115, 101, 116, 117, 112, 46, 112, 121>>,   \* "setup.py"
    <<115, 101, 116, 117, 112, 46, 99, 102, 103>>,   \* "setup.cfg"
    <<67, 97, 114, 103, 111, 46, 116, 111, 109, 108>>,   \* "Cargo.toml"
    <<103, 111, 46, 109, 111, 100>>,   \* "go.mod"
    <<112, 111, 109, 46, 120, 109, 108>>,   \* "pom.xml"
    <<98, 117, 105, 108, 100, 46, 103, 114, 97, 100, 108, 101>>,   \* "build.gradle"
    <<98, 117, 105, 108, 100, 46, 103, 114, 97, 100, 108, 101, 46, 107, 116, 115>>,   \* "build.gradle.kts"
    <<71, 101, 109, 102, 105, 108, 101>>,   \* "Gemfile"
    <<99, 111, 109, 112, 111, 115, 101, 114, 46, 106, 115, 111, 110>>,   \* "composer.json"
    <<109, 105, 120, 46, 101, 120, 115>>,   \* "mix.exs"
    <<112, 117, 98, 115, 112, 101, 99, 46, 121, 97, 109, 108>>,   \* "pubspec.yaml"
    <<114, 101, 113, 117, 105, 114, 101, 109, 101, 110, 116, 115, 46, 116, 120, 116>>,   \* "requirements.txt"
    <<80, 105, 112, 102, 105, 108, 101>>,   \* "Pipfile"
    <<68, 111, 99, 107, 101, 114, 102, 105, 108, 101>>,   \* "Dockerfile"
    <<100, 111, 99, 107, 101, 114, 45, 99, 111, 109, 112, 111, 115, 101, 46, 121, 109, 108>>,   \* "docker-compose.yml"
    <<100, 111, 99, 107, 101, 114, 45, 99, 111, 109, 112, 111, 115, 101, 46, 121, 97, 109, 108>>,   \* "docker-compose.yaml"
    <<46, 101, 110, 118, 46, 101, 120, 97, 109, 112, 108, 101>>,   \* ".env.example"
    <<46, 101, 110, 118, 46, 115, 97, 109, 112, 108, 101>>   \* ".env.sample"
}
(***************************************************************************)
(* The regular expressions of processor.py, as predicates on a str.        *)
(* "$" matches at the end of the string and before a final newline; "."    *)
(* matches any character but a newline.                                    *)
(***************************************************************************)
\* the 1-based positions of a last matched character after which "$" matches
DollarEnds(s) ==
    {Len(s)} \cup (IF Len(s) >= 1 /\ s[Len(s)] = NL THEN {Len(s) - 1} ELSE {})

\* re.search(re.escape(t) + "$", s)
SearchSuffix(s, t) == \E e \in DollarEnds(s) : StartsAt(s, e - Len(t) + 1, t)

NoNewline(s, from, to) == \A k \in from..to : s[k] # NL

\* \.min\.(js|css)$
IsMinified(s) == SearchSuffix(s, <<46, 109, 105, 110, 46, 106, 115>>) \/ SearchSuffix(s, <<46, 109, 105, 110, 46, 99, 115, 115>>)   \* ".min.js"  ".min.css"

\* \.bundle\.js$
IsBundle(s) == SearchSuffix(s, <<46, 98, 117, 110, 100, 108, 101, 46, 106, 115>>)   \* ".bundle.js"

\* \.(pb|pb2)\.go$
IsProtoGo(s) == SearchSuffix(s, <<46, 112, 98, 46, 103, 111>>) \/ SearchSuffix(s, <<46, 112, 98, 50, 46, 103, 111>>)   \* ".pb.go"  ".pb2.go"

\* \.generated\.\w+$
IsGenerated(s) ==
    \E i \in 1..Len(s) :
        /\ StartsAt(s, i, <<46, 103, 101, 110, 101, 114, 97, 116, 101, 100, 46>>)   \* ".generated."
        /\ \E e \in DollarEnds(s) :
              /\ e >= i + 11
              /\ \A k \in (i + 11)..e : IsWord(s[k])

\* _pb2\.py$
IsProtoPy(s) == SearchSuffix(s, <<95, 112, 98, 50, 46, 112, 121>>)   \* "_pb2.py"

\* migrations?/\d+.*\.py$
IsMigration(s) ==
    \E i \in 1..Len(s) :
        /\ StartsAt(s, i, <<109, 105, 103, 114, 97, 116, 105, 111, 110>>)   \* "migration"
        /\ \E j \in {i + 9} \cup (IF StartsAt(s, i + 9, <<115>>) THEN {i + 10} ELSE {}) :   \* "s"
              /\ StartsAt(s, j, <<47>>)   \* "/"
              /\ j + 1 <= Len(s)
              /\ IsDigit(s[j + 1])
              /\ \E e \in DollarEnds(s) :
                    /\ e - 2 >= j + 2
                    /\ StartsAt(s, e - 2, <<46, 112, 121>>)   \* ".py"
                    /\ NoNewline(s, j + 2, e - 3)

\* \.snap$
IsSnapshot(s) == SearchSuffix(s, <<46, 115, 110, 97, 112>>)   \* ".snap"

\* \.map$
IsSourceMap(s) == SearchSuffix(s, <<46, 109, 97, 112>>)   \* ".map"

\* test[_-]?fixtures?/
IsTestFixtureDir(s) ==
    \E i \in 1..Len(s) :
        /\ StartsAt(s, i, <<116, 101, 115, 116>>)   \* "test"
        /\ \E j \in {i + 4} \cup (IF StartsAt(s, i + 4, <<95>>) \/ StartsAt(s, i + 4, <<45>>)   \* "_"  "-"
                                  THEN {i + 5} ELSE {}) :
              /\ StartsAt(s, j, <<102, 105, 120, 116, 117, 114, 101>>)   \* "fixture"
              /\ StartsAt(s, j + 7, <<47>>) \/ StartsAt(s, j + 7, <<115, 47>>)   \* "/"  "s/"

\* fixtures?/.*\.(json|yaml|yml)$
IsFixtureData(s) ==
    \E i \in 1..Len(s) :
        /\ StartsAt(s, i, <<102, 105, 120, 116, 117, 114, 101>>)   \* "fixture"
        /\ \E j \in {i + 7} \cup (IF StartsAt(s, i + 7, <<115>>) THEN {i + 8} ELSE {}) :   \* "s"
              /\ StartsAt(s, j, <<47>>)   \* "/"
              /\ \E ext \in {<<46, 106, 115, 111, 110>>, <<46, 121, 97, 109, 108>>, <<46, 121, 109, 108>>} :   \* ".json"  ".yaml"  ".yml"
                    \E e \in DollarEnds(s) :
                        /\ e - Len(ext) + 1 >= j + 1
                        /\ StartsAt(s, e - Len(ext) + 1, ext)
                        /\ NoNewline(s, j + 1, e - Len(ext))

\* any(pattern.search(path) for pattern in SKIP_PATTERNS)
SKIP_PATTERNS(path) ==
    \/ IsMinified(path)
    \/ IsBundle(path)
    \/ IsProtoGo(path)
    \/ IsGenerated(path)
    \/ IsProtoPy(path)
    \/ IsMigration(path)
    \/ IsSnapshot(path)
    \/ IsSourceMap(path)
    \/ IsTestFixtureDir(path)
    \/ IsFixtureData(path)

Tier1Stems == {
    <<114, 101, 97, 100, 109, 101>>,   \* "readme"
    <<97, 114, 99, 104, 105, 116, 101, 99, 116, 117, 114, 101>>,   \* "architecture"
    <<111, 118, 101, 114, 118, 105, 101, 119>>,   \* "overview"
    <<99, 111, 110, 116, 114, 105, 98, 117, 116, 105, 110, 103>>,   \* "contributing"
    <<99, 104, 97, 110, 103, 101, 108, 111, 103>>,   \* "changelog"
    <<100, 101, 115, 105, 103, 110>>   \* "design"
}

Tier1Exts == {
    <<>>,
    <<46, 109, 100>>,   \* ".md"
    <<46, 114, 115, 116>>,   \* ".rst"
    <<46, 116, 120, 116>>   \* ".txt"
}

\* TIER1_NAMES.match(name): ^(README|...)(\.md|\.rst|\.txt)?$ ignoring case
TIER1_NAMES(name) ==
    LET l == IgnoreCase(name)
    IN  \E stem \in Tier1Stems, ext \in Tier1Exts :
            \/ l = stem \o ext
            \/ l = stem \o ext \o <<NL>>

Tier3Stems == {
    <<109, 97, 105, 110>>,   \* "main"
    <<97, 112, 112>>,   \* "app"
    <<115, 101, 114, 118, 101, 114>>,   \* "server"
    <<105, 110, 100, 101, 120>>,   \* "index"
    <<99, 108, 105>>,   \* "cli"
    <<95, 95, 109, 97, 105, 110, 95, 95>>,   \* "__main__"
    <<95, 95, 105, 110, 105, 116, 95, 95>>   \* "__init__"
}

Tier3Exts == {
    <<112, 121>>,   \* "py"
    <<103, 111>>,   \* "go"
    <<106, 115>>,   \* "js"
    <<116, 115>>,   \* "ts"
    <<114, 98>>,   \* "rb"
    <<114, 115>>,   \* "rs"
    <<106, 97, 118, 97>>,   \* "java"
    <<99, 115>>,   \* "cs"
    <<99, 112, 112>>,   \* "cpp"
    <<99>>   \* "c"
}

\* TIER3_ENTRY_PATTERNS.search(path): (^|/)(main|...)\.(py|...)$ ignoring case
TIER3_ENTRY_PATTERNS(path) ==
    LET l == IgnoreCase(path)
    IN  \E stem \in Tier3Stems, ext \in Tier3Exts :
            LET t == stem \o <<DOT>> \o ext
            IN  \E e \in DollarEnds(l) :
                    LET st == e - Len(t) + 1
                    IN  /\ StartsAt(l, st, t)
                        /\ st = 1 \/ l[st - 1] = SLASH

Tier4Words == {
    <<46, 103, 105, 116, 104, 117, 98, 47, 119, 111, 114, 107, 102, 108, 111, 119, 115, 47>>,   \* ".github/workflows/"
    <<46, 103, 105, 116, 108, 97, 98, 45, 99, 105>>,   \* ".gitlab-ci"
    <<109, 97, 107, 101, 102, 105, 108, 101>>,   \* "makefile"
    <<116, 97, 115, 107, 102, 105, 108, 101>>,   \* "taskfile"
    <<110, 103, 105, 110, 120, 46, 99, 111, 110, 102>>,   \* "nginx.conf"
    <<115, 117, 112, 101, 114, 118, 105, 115, 111, 114, 100>>,   \* "supervisord"
    <<103, 117, 110, 105, 99, 111, 114, 110>>,   \* "gunicorn"
    <<117, 119, 115, 103, 105>>   \* "uwsgi"
}

\* TIER4_INFRA_PATTERNS.search(path), ignoring case
TIER4_INFRA_PATTERNS(path) ==
    LET l == IgnoreCase(path)
    IN  \E w \in Tier4Words : Contains(l, w)

(***************************************************************************)
(* Skip Classifier and Tier Classifier                                     *)
(***************************************************************************)
_should_skip(path) ==
    LET parts == PathParts(path)
    IN  \/ \E k \in 1..(Len(parts) - 1) :
              Lower(parts[k]) \in SKIP_DIRS \/ EndsWith(parts[k], <<46, 101, 103, 103, 45, 105, 110, 102, 111>>)   \* ".egg-info"
        \/ PathName(path) \in SKIP_FILENAMES
        \/ Lower(PathSuffix(path)) \in SKIP_EXTENSIONS
        \/ SKIP_PATTERNS(path)

_tier(path) ==
    LET name == PathName(path)
    IN  IF TIER1_NAMES(name) THEN 1
        ELSE IF name \in TIER2_NAMES THEN 2
        ELSE IF TIER3_ENTRY_PATTERNS(path) THEN 3
        ELSE IF TIER4_INFRA_PATTERNS(path) THEN 4
        ELSE 5

(***************************************************************************)
(* filter_and_prioritize: candidates, the sort and one loop iteration      *)
(***************************************************************************)
\* item.get("size", 0)
ItemSize(item) == IF "size" \in DOMAIN item THEN item.size ELSE 0

\* a variant that keeps every item
IsCandidateAny(path) == TRUE

\* if not _should_skip(path)
IsCandidate(path) == ~_should_skip(path)

\* the candidates list before the sort: (path, size, tier) of each non-skipped item
RECURSIVE Candidates(_)
Candidates(tree) ==
    IF tree = <<>> THEN <<>>
    ELSE LET item == Head(tree)
         IN  (IF IsCandidate(item.path)
              THEN <<[path |-> item.path, size |-> ItemSize(item), tier |-> _tier(item.path)]>>
              ELSE <<>>)
             \o Candidates(Tail(tree))

\* key(a) <= key(b) for the sort key (tier, size)
SortKeyLE(a, b) == a.tier < b.tier \/ (a.tier = b.tier /\ a.size <= b.size)

\* a variant that puts x before the elements of equal key: an unstable sort
RECURSIVE InsertSortedUnstable(_, _)
InsertSortedUnstable(s, x) ==
    IF s = <<>> THEN <<x>>
    ELSE IF SortKeyLE(Head(s), x) /\ ~SortKeyLE(x, Head(s))
         THEN <<Head(s)>> \o InsertSortedUnstable(Tail(s), x)
    ELSE <<x>> \o s

\* x inserted into the sorted list s behind every element whose key is <= x's
RECURSIVE InsertSorted(_, _)
InsertSorted(s, x) ==
    IF s = <<>> THEN <<x>>
    ELSE IF SortKeyLE(Head(s), x) THEN <<Head(s)>> \o InsertSorted(Tail(s), x)
    ELSE <<x>> \o s

\* list.sort(key=...): a stable sort
RECURSIVE SortCandidates(_)
SortCandidates(c) ==
    IF c = <<>> THEN <<>>
    ELSE InsertSorted(SortCandidates(SubSeq(c, 1, Len(c) - 1)), c[Len(c)])

\* if budget <= 0: break
BudgetExhausted(b) == b <= 0

\* allotment = min(size, MAX_FILE_CHARS)
Allotment(size) == Min(size, MAX_FILE_CHARS)

\* a variant that also forces tier 3 in
IncludedThroughTier3(allotment, b, tier) == allotment <= b \/ tier <= 3

\* if allotment <= budget or tier <= 2
Included(allotment, b, tier) == allotment <= b \/ tier <= 2

(***************************************************************************)
(* truncate_file                                                           *)
(***************************************************************************)
TruncationNote(lines_kept, lines_total) ==
    <<10, 10, 46, 46, 46, 32, 91, 116, 114, 117, 110, 99, 97, 116, 101, 100, 58, 32, 115, 104, 111, 119, 105, 110, 103, 32>> \o Str(lines_kept) \o <<47>> \o Str(lines_total)   \* "\n\n... [truncated: showing "  "/"
    \o <<32, 108, 105, 110, 101, 115, 93>>   \* " lines]"

\* a variant that also cuts at a newline exactly at 80% of char_limit
CleanBoundaryAtOrAfter(last_newline, char_limit) == 10 * last_newline >= 8 * char_limit

\* if last_newline > char_limit * 0.8
CleanBoundary(last_newline, char_limit) == 10 * last_newline > 8 * char_limit

\* a variant whose length test is strict: a content of exactly char_limit is cut
truncate_file_strict(path, content, char_limit) ==
    IF Len(content) < char_limit THEN content
    ELSE LET cut == Prefix(content, char_limit)
             last_newline == RFind(cut, NL)
             truncated == IF CleanBoundary(last_newline, char_limit)
                          THEN Prefix(cut, last_newline)
                          ELSE cut
         IN  truncated \o TruncationNote(Count(truncated, NL) + 1, Count(content, NL) + 1)

\* a variant that keeps one character more than char_limit
truncate_file_off_by_one(path, content, char_limit) ==
    IF Len(content) <= char_limit THEN content
    ELSE LET cut == Prefix(content, char_limit + 1)
             last_newline == RFind(cut, NL)
             truncated == IF CleanBoundary(last_newline, char_limit)
                          THEN Prefix(cut, last_newline)
                          ELSE cut
         IN  truncated \o TruncationNote(Count(truncated, NL) + 1, Count(content, NL) + 1)

truncate_file(path, content, char_limit) ==
    IF Len(content) <= char_limit THEN content
    ELSE LET cut == Prefix(content, char_limit)
             last_newline == RFind(cut, NL)
             truncated == IF CleanBoundary(last_newline, char_limit)
                          THEN Prefix(cut, last_newline)
                          ELSE cut
             lines_total == Count(content, NL) + 1
             lines_kept == Count(truncated, NL) + 1
         IN  truncated \o TruncationNote(lines_kept, lines_total)

(***************************************************************************)
(* build_file_context: one block, the omission marker                      *)
(***************************************************************************)
\* f"### {path}\n```\n{content}\n```"
Block(path, content) == <<35, 35, 35, 32>> \o path \o <<10, 96, 96, 96, 10>> \o content \o <<10, 96, 96, 96>>   \* "### "  "\n```\n"  "\n```"

OmittedMarker == <<46, 46, 46, 32, 91, 97, 100, 100, 105, 116, 105, 111, 110, 97, 108, 32, 102, 105, 108, 101, 115, 32, 111, 109, 105, 116, 116, 101, 100, 32, 100, 117, 101, 32, 116, 111, 32, 99, 111, 110, 116, 101, 120, 116, 32, 98, 117, 100, 103, 101, 116, 93>>   \* "... [additional files omitted due to context budget]"

\* a variant that lets one more file's worth through
BudgetReachedLate(t) == t >= CHAR_BUDGET + MAX_FILE_CHARS

\* if total >= CHAR_BUDGET
BudgetReached(t) == t >= CHAR_BUDGET

\* the loop of build_file_context from the i-th item of the dict on: truncate, append
\* the block, add its length to the total; at the budget append the marker and break
RECURSIVE RenderParts(_, _, _, _)
RenderParts(files, i, parts, total) ==
    IF i > Len(files) THEN parts
    ELSE LET path == files[i][1]
             block == Block(path, truncate_file(path, files[i][2], MAX_FILE_CHARS))
         IN  IF BudgetReached(total + Len(block))
             THEN parts \o <<block, OmittedMarker>>
             ELSE RenderParts(files, i + 1, Append(parts, block), total + Len(block))

(***************************************************************************)
(* build_directory_tree                                                    *)
(***************************************************************************)
\* a < b for str: by code points, a proper prefix first
RECURSIVE StrLess(_, _)
StrLess(a, b) ==
    IF b = <<>> THEN FALSE
    ELSE IF a = <<>> THEN TRUE
    ELSE IF Head(a) # Head(b) THEN Head(a) < Head(b)
    ELSE StrLess(Tail(a), Tail(b))

RECURSIVE InsertPath(_, _)
InsertPath(s, x) ==
    IF s = <<>> THEN <<x>>
    ELSE IF ~StrLess(x, Head(s)) THEN <<Head(s)>> \o InsertPath(Tail(s), x)
    ELSE <<x>> \o s

\* sorted(paths)
RECURSIVE SortedPaths(_)
SortedPaths(ps) ==
    IF ps = <<>> THEN <<>>
    ELSE InsertPath(SortedPaths(SubSeq(ps, 1, Len(ps) - 1)), ps[Len(ps)])

\* if item["type"] == "blob" and not _should_skip(item["path"])
TreeShown(item) == item.type = "blob" /\ ~_should_skip(item.path)

\* the sorted paths of the items shown, before the cap
RECURSIVE ShownPaths(_)
ShownPaths(tree) ==
    IF tree = <<>> THEN <<>>
    ELSE (IF TreeShown(Head(tree)) THEN <<Head(tree).path>> ELSE <<>>)
         \o ShownPaths(Tail(tree))

\* the local list the lines are rendered from: sorted, capped at TREE_MAX_ENTRIES
TreePaths(tree) == Prefix(SortedPaths(ShownPaths(tree)), TREE_MAX_ENTRIES)

RECURSIVE Indent(_)
Indent(depth) == IF depth = 0 THEN <<>> ELSE <<32, 32>> \o Indent(depth - 1)   \* "  "

\* indent, then the branch glyph (U+2514 U+2500 U+2500 space) below the root, then the name
TreeLine(path) ==
    LET depth == Count(path, SLASH)
    IN  Indent(depth) \o (IF depth > 0 THEN <<9492, 9472, 9472, 32>> ELSE <<>>) \o PathName(path)

TreeTruncatedLine ==
    <<32, 32, 46, 46, 46, 32, 91, 116, 114, 101, 101, 32, 116, 114, 117, 110, 99, 97, 116, 101, 100, 32, 97, 116, 32>> \o Str(TREE_MAX_ENTRIES) \o <<32, 101, 110, 116, 114, 105, 101, 115, 93>>   \* "  ... [tree truncated at "  " entries]"

build_directory_tree(tree) ==
    LET all == SortedPaths(ShownPaths(tree))
        paths == TreePaths(tree)
        lines == [k \in 1..Len(paths) |-> TreeLine(paths[k])]
    IN  IF all = <<>> THEN <<40, 101, 109, 112, 116, 121, 41>>   \* "(empty)"
        ELSE Join(<<NL>>, lines \o (IF Len(all) > TREE_MAX_ENTRIES
                                    THEN <<TreeTruncatedLine>>
                                    ELSE <<>>))

(***************************************************************************)
(* _fetch_file: bytes.decode("utf-8") and the handling of a response       *)
(***************************************************************************)
None == <<>>
Some(v) == <<v>>

\* the number of bytes of the UTF-8 sequence a lead byte opens, 0 for no lead byte
Utf8Width(b0) ==
    IF b0 < 128 THEN 1
    ELSE IF b0 \in 194..223 THEN 2
    ELSE IF b0 \in 224..239 THEN 3
    ELSE IF b0 \in 240..244 THEN 4
    ELSE 0

Utf8CodePoint(b, i, n) ==
    IF n = 1 THEN b[i]
    ELSE IF n = 2 THEN (b[i] % 32) * 64 + (b[i + 1] % 64)
    ELSE IF n = 3 THEN (b[i] % 16) * 4096 + (b[i + 1] % 64) * 64 + (b[i + 2] % 64)
    ELSE (b[i] % 8) * 262144 + (b[i + 1] % 64) * 4096 + (b[i + 2] % 64) * 64
         + (b[i + 3] % 64)

\* bytes.decode("utf-8") from the 1-based position i on, text being what the bytes
\* before i decoded to: Some(text), or None for UnicodeDecodeError
RECURSIVE Utf8From(_, _, _)
Utf8From(b, i, text) ==
    IF i > Len(b) THEN Some(text)
    ELSE LET n == Utf8Width(b[i])
         IN  IF n = 0 \/ i + n - 1 > Len(b) THEN None
             ELSE IF \E k \in 1..(n - 1) : b[i + k] \notin 128..191 THEN None
             ELSE LET cp == Utf8CodePoint(b, i, n)
                  IN  IF n = 3 /\ (cp < 2048 \/ cp \in 55296..57343) THEN None
                      ELSE IF n = 4 /\ (cp < 65536 \/ cp > 1114111) THEN None
                      ELSE Utf8From(b, i + n, Append(text, cp))

Utf8Decode(b) == Utf8From(b, 1, <<>>)

\* the outcome of one call of _fetch_file on what client.get did: the value returned,
\* or an exception leaving the call
Returned(v) == [raised |-> FALSE, value |-> v]
Raised == [raised |-> TRUE, value |-> None]

\* a response with status 200 gives its decoded text, an undecodable one None
DecodedBody(resp) == Utf8Decode(resp.content)

\* a variant without the outer try/except: an exception of client.get leaves the call
_fetch_file_unguarded(resp) ==
    IF resp.kind \in {"exception", "base_exception"} THEN Raised
    ELSE IF resp.status = 200 THEN Returned(DecodedBody(resp))
    ELSE Returned(None)

\* except Exception catches what client.get raises of class Exception; a BaseException
\* outside it (asyncio.CancelledError, KeyboardInterrupt) leaves the call
_fetch_file(resp) ==
    IF resp.kind = "base_exception" THEN Raised
    ELSE IF resp.kind = "exception" THEN Returned(None)
    ELSE IF resp.status = 200 THEN Returned(DecodedBody(resp))
    ELSE Returned(None)

(***************************************************************************)
(* fetch_repo_contents: the semaphore, gather and the files dict           *)
(***************************************************************************)
MAX_CONCURRENT_FETCHES == 10

\* asyncio.Semaphore as bounded_fetch uses it.  value is its counter; waiters is its
\* queue of futures, each named by the task that awaits it; a task is "queued" while
\* its future is pending and "woken" once _wake_up_next has set it and the task has not
\* run yet.  No waiter is cancelled.

\* a variant that is never locked
SemAvailableAlways(value, waiters) == TRUE

\* not locked(): the counter is positive and no waiter stands in the queue
SemAvailable(value, waiters) == value > 0 /\ waiters = <<>>

\* the waiters whose future is not done
Pending(waiters, tasks) == {k \in 1..Len(waiters) : tasks[waiters[k]] = "queued"}

\* _wake_up_next: the first waiter whose future is not done takes one from the counter
\* and its future is set; with no such waiter nothing changes
_wake_up_next(value, waiters, tasks) ==
    LET pending == Pending(waiters, tasks)
    IN  IF pending = {} THEN [value |-> value, tasks |-> tasks]
        ELSE LET first == CHOOSE k \in pending : \A m \in pending : k <= m
             IN  [value |-> value - 1,
                  tasks |-> [tasks EXCEPT ![waiters[first]] = "woken"]]

\* release: the counter goes up by one, then _wake_up_next
SemReleased(value, waiters, tasks) == _wake_up_next(value + 1, waiters, tasks)

\* self._waiters.remove(fut)
WithoutWaiter(waiters, i) == SelectSeq(waiters, LAMBDA w : w # i)

\* acquire after its future was set: the future leaves the queue, and while the counter
\* is positive the next waiter is woken
SemResumed(value, waiters, tasks) ==
    IF value > 0 THEN _wake_up_next(value, waiters, tasks)
    ELSE [value |-> value, tasks |-> tasks]

\* a variant that keeps the results in the order the tasks ended
StoreResultAsCompleted(res, i, r) ==
    LET free == {k \in 1..Len(res) : res[k] = <<>>}
    IN  [res EXCEPT ![CHOOSE k \in free : \A m \in free : k <= m] = <<r>>]

\* gather keeps each task's result at the position of its awaitable
StoreResult(res, i, r) == [res EXCEPT ![i] = <<r>>]

\* d[k] = v on an insertion-ordered dict, kept as a sequence of <<key, value>>
DictSet(d, k, v) ==
    IF \E j \in 1..Len(d) : d[j][1] = k
    THEN [j \in 1..Len(d) |-> IF d[j][1] = k THEN <<k, v>> ELSE d[j]]
    ELSE Append(d, <<k, v>>)

\* {path: content for path, content in results if content is not None}
RECURSIVE FilesOf(_)
FilesOf(res) ==
    IF res = <<>> THEN <<>>
    ELSE LET init == FilesOf(SubSeq(res, 1, Len(res) - 1))
             last == res[Len(res)][1]
         IN  IF last[2] # None THEN DictSet(init, last[1], last[2][1]) ELSE init

Keys(d) == [j \in 1..Len(d) |-> d[j][1]]

(***************************************************************************)
(* Inputs: trees, remote repositories, texts                               *)
(***************************************************************************)
\* the longest tree of free entries given to fetch_repo_contents
MaxTreeLen == 3
\* the longest list of free entries given to filter_and_prioritize alone
MaxSelLen == 2
\* the most files of one kind put behind them, enough to use up CHAR_BUDGET
MaxBulk == 13
\* the fetches beyond the semaphore's capacity
MaxWaiting == 1
\* the most files given to build_file_context alone
MaxFiles == 13
\* how far beyond char_limit a content given to truncate_file reaches
MaxOver == 50

Blob(path, size) == [path |-> path, size |-> size, type |-> "blob"]

\* every sequence without repetition of at most n elements of S
RECURSIVE Arrangements(_, _)
Arrangements(S, n) ==
    IF n = 0 THEN {<<>>}
    ELSE LET shorter == Arrangements(S, n - 1)
         IN  shorter \cup UNION {{Append(t, x) : x \in S \ Range(t)} :
                                     t \in {u \in shorter : Len(u) = n - 1}}

DistinctPaths(t) == \A i, j \in 1..Len(t) : i # j => t[i].path # t[j].path

\* the paths of the free entries, one or two of each tier and two that are skipped
PathReadme == <<82, 69, 65, 68, 77, 69, 46, 109, 100>>   \* "README.md"
PathManifest == <<112, 97, 99, 107, 97, 103, 101, 46, 106, 115, 111, 110>>   \* "package.json"
PathMain == <<115, 114, 99, 47, 109, 97, 105, 110, 46, 112, 121>>   \* "src/main.py"
PathMake == <<77, 97, 107, 101, 102, 105, 108, 101>>   \* "Makefile"
PathLib == <<108, 105, 98, 46, 112, 121>>   \* "lib.py"
PathLogo == <<108, 111, 103, 111, 46, 112, 110, 103>>   \* "logo.png"
\* a directory name that only lower() makes "site-packages": it holds U+212A KELVIN SIGN
PathKelvin == <<115, 105, 116, 101, 45, 112, 97, 99, 8490, 97, 103, 101, 115, 47, 120, 46, 112, 121>>   \* "site-pac\u212aages/x.py"
\* a name that only re.IGNORECASE reads as "makefile"
PathKelvinMake == <<109, 97, 8490, 101, 102, 105, 108, 101>>   \* "ma\u212aefile"

\* a text of length len over "x" with newlines at the 0-based indexes nls
Text(len, nls) == [i \in 1..len |-> IF (i - 1) \in nls THEN NL ELSE 120]

\* the path of the i-th bulk file of a kind: d<i>/README.md or src/m<i>.py
BulkPath(kind, i) ==
    IF kind = "docs" THEN <<100>> \o Str(i) \o <<47, 82, 69, 65, 68, 77, 69, 46, 109, 100>>   \* "d"  "/README.md"
    ELSE <<115, 114, 99, 47, 109>> \o Str(i) \o <<46, 112, 121>>   \* "src/m"  ".py"

BulkTree(kind, n) == [i \in 1..n |-> Blob(BulkPath(kind, i), 7000)]

\* trees for filter_and_prioritize: free entries, then a run of equal bulk files
SelEntries ==
    {Blob(p, s) : p \in {PathReadme, PathManifest, PathMain, PathLib, PathLogo},
                  s \in {100, 7000}}

SelTrees ==
    {t \o BulkTree(kind, n) :
        t \in {u \in Arrangements(SelEntries, MaxSelLen) : DistinctPaths(u)},
        kind \in {"docs", "code"},
        n \in {0} \cup ((CHAR_BUDGET \div MAX_FILE_CHARS)..MaxBulk)}

\* trees for fetch_repo_contents, their paths distinct as in a git tree: free entries,
\* or more files than the semaphore admits
FetchEntries ==
    {Blob(PathReadme, 30), Blob(PathManifest, 20), Blob(PathMain, 10),
     Blob(PathMake, 40), Blob(PathLogo, 10), Blob(PathKelvin, 10), Blob(PathKelvinMake, 10)}

WideTree == [i \in 1..(MAX_CONCURRENT_FETCHES + MaxWaiting) |-> Blob(BulkPath("code", i), 100)]

FetchTrees == Arrangements(FetchEntries, MaxTreeLen) \cup {WideTree}

\* what raw.githubusercontent.com answers for a path, in each state of the network
\* or "interrupted": the request is cancelled while client.get is awaited
Networks == {"up", "mixed", "down", "interrupted"}

Response(status, content) == [kind |-> "response", status |-> status, content |-> content]
Failure == [kind |-> "exception", status |-> 0, content |-> <<>>]
Interruption == [kind |-> "base_exception", status |-> 0, content |-> <<>>]

\* the sum of the code points of a path: which answer the "mixed" network gives it
RECURSIVE Checksum(_)
Checksum(p) == IF p = <<>> THEN 0 ELSE Head(p) + Checksum(Tail(p))

\* the bytes of a code point, and of a text, in UTF-8
Utf8Bytes(c) ==
    IF c < 128 THEN <<c>>
    ELSE IF c < 2048 THEN <<192 + (c \div 64), 128 + (c % 64)>>
    ELSE IF c < 65536
    THEN <<224 + (c \div 4096), 128 + ((c \div 64) % 64), 128 + (c % 64)>>
    ELSE <<240 + (c \div 262144), 128 + ((c \div 4096) % 64), 128 + ((c \div 64) % 64),
           128 + (c % 64)>>

RECURSIVE Utf8Encode(_)
Utf8Encode(text) ==
    IF text = <<>> THEN <<>> ELSE Utf8Bytes(Head(text)) \o Utf8Encode(Tail(text))

\* the text of a file of the repository: "# ", its path, then a line holding
\* U+00E9 and U+20AC; and the bytes of that text in UTF-8
TextOf(path) == <<35, 32>> \o path \o <<NL, 233, 8364, NL>>   \* "# "
BodyOf(path) == <<35, 32>> \o Utf8Encode(path) \o <<NL, 195, 169, 226, 130, 172, NL>>   \* "# "

\* whether the network answers a path with status 200 and the file's text
Served(net, path) == net = "up" \/ (net = "mixed" /\ Checksum(path) % 4 = 0)

ClientGet(network, path) ==
    IF network = "up" THEN Response(200, BodyOf(path))
    ELSE IF network = "down" THEN Failure
    ELSE IF network = "interrupted" THEN Interruption
    ELSE LET k == Checksum(path) % 4
         IN  IF k = 0 THEN Response(200, BodyOf(path))
             ELSE IF k = 1 THEN Response(404, <<52, 48, 52, 58, 32, 78, 111, 116, 32, 70, 111, 117, 110, 100>>)   \* "404: Not Found"
             ELSE IF k = 2 THEN Response(200, <<137, 80, 78, 71>> \o Utf8Encode(path))
             ELSE Failure

\* contents for truncate_file: around char_limit long, newlines around the 80% mark
TruncLimits == {-3, -2, -1, 0, 1, 10, 200, MAX_FILE_CHARS}

TruncLengths(limit) ==
    {n \in {0, 3, 5, limit - 1, limit, limit + 1, limit + 2, limit + MaxOver} : n >= 0}

TruncNewlines(limit) ==
    {a \in {0, 1, 2, (8 * limit) \div 10, (8 * limit) \div 10 + 1, limit - 39, limit - 36,
            limit - 1, limit, limit + 1} : a >= 0}

TruncInputs ==
    UNION {{[content |-> Text(n, nls), char_limit |-> limit] :
                n \in TruncLengths(limit),
                nls \in {{}} \cup {{a, b} : a, b \in TruncNewlines(limit)}} :
           limit \in TruncLimits}

\* mappings for build_file_context: n files, the first j of one text, the rest of another
CtxTexts == {Text(100, {50}), Text(MAX_FILE_CHARS, {}), Text(MAX_FILE_CHARS + 1000, {5000})}

CtxFiles ==
    {[i \in 1..n |-> <<BulkPath("code", i), IF i <= j THEN a ELSE b>>] :
        n \in 0..MaxFiles, j \in {0, 1}, a \in CtxTexts, b \in CtxTexts}

(***************************************************************************)
(* State                                                                   *)
(***************************************************************************)
VARIABLES
    pc,             \* the position in the pipeline
    tree,           \* fetch_repo_contents: the blobs _get_tree returned
    network,        \* what the remote answers to the per-file requests
    directory_tree, \* fetch_repo_contents: the rendered tree
    candidates,     \* filter_and_prioritize: the sorted candidates
    idx,            \* filter_and_prioritize: the 1-based position of the loop
    budget,         \* filter_and_prioritize: the remaining budget
    selected,       \* filter_and_prioritize: the selection so far; then selected_paths
    task,           \* fetch_repo_contents: each bounded_fetch task's position
    fetches,        \* how many times _fetch_file was called for each selected path
    sem,            \* the semaphore's counter
    waiters,        \* the semaphore's queue: the tasks awaiting a future, oldest first
    results,        \* gather's result list: <<>> or <<(path, content)>> per task
    failed,         \* the tasks that ended in an exception
    outer,          \* the future gather returned: "pending", "exception" or "result"
    overtook,       \* history: a fetch ended while one created before it was in flight
    files,          \* the files dict, keys in insertion order
    parts,          \* build_file_context: the parts joined
    context,        \* build_file_context: the string returned
    content,        \* truncate_file: the content given
    char_limit,     \* truncate_file: the limit given
    truncated,      \* truncate_file(content, char_limit)
    truncated2      \* truncate_file(truncated, char_limit)

vars == <<pc, tree, network, directory_tree, candidates, idx, budget, selected, task,
          fetches, sem, waiters, results, failed, outer, overtook, files, parts, context,
          content, char_limit,
          truncated, truncated2>>

selVars == <<candidates, idx, budget, selected>>
fetchVars == <<task, fetches, sem, waiters, results, failed, outer, overtook>>
ctxVars == <<parts, context>>
truncVars == <<content, char_limit, truncated, truncated2>>

\* every variable but pc, the inputs and the files dict, before anything ran
Blank ==
    /\ directory_tree = <<>>
    /\ candidates = <<>>
    /\ idx = 1
    /\ budget = CHAR_BUDGET
    /\ selected = <<>>
    /\ task = <<>>
    /\ fetches = <<>>
    /\ sem = MAX_CONCURRENT_FETCHES
    /\ waiters = <<>>
    /\ results = <<>>
    /\ failed = {}
    /\ outer = "pending"
    /\ overtook = FALSE
    /\ parts = <<>>
    /\ context = <<>>
    /\ truncated = <<>>
    /\ truncated2 = <<>>

(***************************************************************************)
(* fetch_repo_contents up to the selection                                 *)
(***************************************************************************)
\* if not tree: raise ValueError("Repository appears to be empty.")
EmptyRepository ==
    /\ pc = "fetch_repo_contents"
    /\ tree = <<>>
    /\ pc' = "ValueError"
    /\ UNCHANGED <<tree, network, directory_tree, selVars, fetchVars, files, ctxVars,
                   truncVars>>

\* directory_tree = build_directory_tree(tree)
BuildDirectoryTree ==
    /\ pc = "fetch_repo_contents"
    /\ tree # <<>>
    /\ directory_tree' = build_directory_tree(tree)
    /\ pc' = "filter_and_prioritize"
    /\ UNCHANGED <<tree, network, selVars, fetchVars, files, ctxVars, truncVars>>

\* filter_and_prioritize, to the head of its loop: candidates, sort, budget
FilterAndSort ==
    /\ pc = "filter_and_prioritize"
    /\ candidates' = SortCandidates(Candidates(tree))
    /\ selected' = <<>>
    /\ budget' = CHAR_BUDGET
    /\ idx' = 1
    /\ pc' = "select"
    /\ UNCHANGED <<tree, network, directory_tree, fetchVars, files, ctxVars, truncVars>>

\* one iteration of the loop that does not break
SelectStep ==
    /\ pc = "select"
    /\ idx <= Len(candidates)
    /\ ~BudgetExhausted(budget)
    /\ LET c == candidates[idx]
           allotment == Allotment(c.size)
       IN  IF Included(allotment, budget, c.tier)
           THEN /\ selected' = Append(selected, c.path)
                /\ budget' = budget - allotment
           ELSE UNCHANGED <<selected, budget>>
    /\ idx' = idx + 1
    /\ UNCHANGED <<pc, tree, network, directory_tree, candidates, fetchVars, files, ctxVars,
                   truncVars>>

\* the loop ends, by break or at the end of the candidates: return selected
SelectReturn ==
    /\ pc = "select"
    /\ idx > Len(candidates) \/ BudgetExhausted(budget)
    /\ pc' = "selected"
    /\ UNCHANGED <<tree, network, directory_tree, selVars, fetchVars, files, ctxVars,
                   truncVars>>

\* if not selected_paths: raise ValueError("No readable files found in repository.")
NoReadableFiles ==
    /\ pc = "selected"
    /\ selected = <<>>
    /\ pc' = "ValueError"
    /\ UNCHANGED <<tree, network, directory_tree, selVars, fetchVars, files, ctxVars,
                   truncVars>>

(***************************************************************************)
(* fetch_repo_contents: the concurrent fetches                             *)
(***************************************************************************)
\* sem = asyncio.Semaphore(MAX_CONCURRENT_FETCHES); gather creates one task per path
StartFetches ==
    /\ pc = "selected"
    /\ selected # <<>>
    /\ sem' = MAX_CONCURRENT_FETCHES
    /\ waiters' = <<>>
    /\ task' = [i \in 1..Len(selected) |-> "created"]
    /\ fetches' = [i \in 1..Len(selected) |-> 0]
    /\ results' = [i \in 1..Len(selected) |-> <<>>]
    /\ failed' = {}
    /\ outer' = "pending"
    /\ overtook' = FALSE
    /\ pc' = "gather"
    /\ UNCHANGED <<tree, network, directory_tree, selVars, files, ctxVars, truncVars>>

\* the tasks run while fetch_repo_contents awaits gather, and go on running after gather
\* raised: gather does not cancel the other tasks when one ends in an exception
TasksRun == pc \in {"gather", "Exception"}

\* task i runs for the first time, the tasks created before it having done so (the
\* event loop starts the tasks in creation order); async with sem finds the semaphore
\* not locked, takes one from the counter and calls _fetch_file, which awaits client.get
Acquire(i) ==
    /\ TasksRun
    /\ task[i] = "created"
    /\ \A j \in 1..(i - 1) : task[j] # "created"
    /\ SemAvailable(sem, waiters)
    /\ sem' = sem - 1
    /\ task' = [task EXCEPT ![i] = "fetching"]
    /\ fetches' = [fetches EXCEPT ![i] = @ + 1]
    /\ UNCHANGED <<pc, tree, network, directory_tree, selVars, waiters, results, failed,
                   outer, overtook, files, ctxVars, truncVars>>

\* task i runs for the first time and finds the semaphore locked: it appends a future
\* to the queue and awaits it
Enqueue(i) ==
    /\ TasksRun
    /\ task[i] = "created"
    /\ \A j \in 1..(i - 1) : task[j] # "created"
    /\ ~SemAvailable(sem, waiters)
    /\ waiters' = Append(waiters, i)
    /\ task' = [task EXCEPT ![i] = "queued"]
    /\ UNCHANGED <<pc, tree, network, directory_tree, selVars, fetches, sem, results,
                   failed, outer, overtook, files, ctxVars, truncVars>>

\* task i runs again after its future was set: it leaves the queue, wakes the next
\* waiter while the counter is positive, and calls _fetch_file
Resume(i) ==
    /\ TasksRun
    /\ task[i] = "woken"
    /\ LET left == WithoutWaiter(waiters, i)
           s == SemResumed(sem, left, [task EXCEPT ![i] = "fetching"])
       IN  /\ waiters' = left
           /\ sem' = s.value
           /\ task' = s.tasks
    /\ fetches' = [fetches EXCEPT ![i] = @ + 1]
    /\ UNCHANGED <<pc, tree, network, directory_tree, selVars, results, failed, outer,
                   overtook, files, ctxVars, truncVars>>

\* client.get of task i ends and the task takes its last step: _fetch_file returns,
\* bounded_fetch leaves the semaphore, which wakes its first waiter, and returns
\* (path, content); or an exception leaves _fetch_file and, through the semaphore, the
\* task.  fetch_repo_contents is still suspended in gather.
Complete(i) ==
    /\ TasksRun
    /\ task[i] = "fetching"
    /\ LET r == _fetch_file(ClientGet(network, selected[i]))
       IN  IF r.raised
           THEN /\ failed' = failed \cup {i}
                /\ UNCHANGED results
           ELSE /\ results' = StoreResult(results, i, <<selected[i], r.value>>)
                /\ UNCHANGED failed
    /\ LET s == SemReleased(sem, waiters, [task EXCEPT ![i] = "done"])
       IN  /\ sem' = s.value
           /\ task' = s.tasks
    /\ overtook' = (overtook \/ \E j \in 1..(i - 1) : task[j] = "fetching")
    /\ UNCHANGED <<pc, tree, network, directory_tree, selVars, fetches, waiters, outer,
                   files, ctxVars, truncVars>>

\* gather's callback for a task that ended in an exception: the first one sets the
\* exception on the future gather returned; the other tasks are left alone
ChildFailed(i) ==
    /\ TasksRun
    /\ i \in failed
    /\ outer = "pending"
    /\ outer' = "exception"
    /\ UNCHANGED <<pc, tree, network, directory_tree, selVars, task, fetches, sem, waiters,
                   results, failed, overtook, files, ctxVars, truncVars>>

\* fetch_repo_contents resumes from await asyncio.gather(...) with the exception
GatherRaised ==
    /\ pc = "gather"
    /\ outer = "exception"
    /\ pc' = "Exception"
    /\ UNCHANGED <<tree, network, directory_tree, selVars, fetchVars, files, ctxVars,
                   truncVars>>

\* gather's callback for the last task to end, none having ended in an exception: it
\* sets the results on the future gather returned; fetch_repo_contents is still
\* suspended
GatherDone ==
    /\ pc = "gather"
    /\ \A i \in 1..Len(task) : task[i] = "done"
    /\ failed = {}
    /\ outer = "pending"
    /\ outer' = "result"
    /\ UNCHANGED <<pc, tree, network, directory_tree, selVars, task, fetches, sem, waiters,
                   results, failed, overtook, files, ctxVars, truncVars>>

\* fetch_repo_contents resumes from await asyncio.gather(...) with the results: the
\* files dict is built, the function returns
Gathered ==
    /\ pc = "gather"
    /\ outer = "result"
    /\ files' = FilesOf(results)
    /\ pc' = "returned"
    /\ UNCHANGED <<tree, network, directory_tree, selVars, fetchVars, ctxVars, truncVars>>

(***************************************************************************)
(* build_file_context, called by summarize_repo on the files returned      *)
(***************************************************************************)
BuildFileContext ==
    /\ pc = "returned"
    /\ parts' = RenderParts(files, 1, <<>>, 0)
    /\ context' = Join(<<NL, NL>>, parts')
    /\ pc' = "done"
    /\ UNCHANGED <<tree, network, directory_tree, selVars, fetchVars, files, truncVars>>

(***************************************************************************)
(* truncate_file, applied once and then to its own result                  *)
(***************************************************************************)
Truncate ==
    /\ pc = "truncate_file"
    /\ truncated' = truncate_file(<<>>, content, char_limit)
    /\ pc' = "truncated"
    /\ UNCHANGED <<tree, network, directory_tree, selVars, fetchVars, files, ctxVars,
                   content, char_limit, truncated2>>

TruncateAgain ==
    /\ pc = "truncated"
    /\ truncated2' = truncate_file(<<>>, truncated, char_limit)
    /\ pc' = "truncated_twice"
    /\ UNCHANGED <<tree, network, directory_tree, selVars, fetchVars, files, ctxVars,
                   content, char_limit, truncated>>

(***************************************************************************)
(* Specifications                                                          *)
(***************************************************************************)
\* the whole pipeline: fetch_repo_contents, then build_file_context; the tree with more
\* files than the semaphore admits is fetched from the network of mixed answers
Init ==
    /\ pc = "fetch_repo_contents"
    /\ tree \in FetchTrees
    /\ network \in Networks
    /\ tree = WideTree => network = "mixed"
    /\ files = <<>>
    /\ content = <<>>
    /\ char_limit = MAX_FILE_CHARS
    /\ Blank

Next ==
    \/ EmptyRepository
    \/ BuildDirectoryTree
    \/ FilterAndSort
    \/ SelectStep
    \/ SelectReturn
    \/ NoReadableFiles
    \/ StartFetches
    \/ \E i \in 1..Len(task) : Acquire(i)
    \/ \E i \in 1..Len(task) : Enqueue(i)
    \/ \E i \in 1..Len(task) : Resume(i)
    \/ \E i \in 1..Len(task) : Complete(i)
    \/ \E i \in 1..Len(task) : ChildFailed(i)
    \/ GatherRaised
    \/ GatherDone
    \/ Gathered
    \/ BuildFileContext

Spec == Init /\ [][Next]_vars

\* the pipeline with the scheduling of the fetches: the event loop runs every task and
\* every callback that is ready, and client.get ends (in a response or in an exception)
InitFair ==
    /\ Init
    /\ tree = WideTree \/ Len(tree) <= 2

\* the states in which some Complete(i) can take a step: a task awaits client.get
CompleteEnabled == TasksRun /\ \E i \in 1..Len(task) : task[i] = "fetching"

\* weak fairness of the steps of the tasks and of gather, and weak fairness of Complete
\* written out with its enabling condition: WF_vars(A) is
\* []<>~ENABLED <<A>>_vars \/ []<><<A>>_vars, and a step of Complete always changes task
FairSpec ==
    /\ InitFair
    /\ [][Next]_vars
    /\ WF_vars(\E i \in 1..Len(task) : Acquire(i))
    /\ WF_vars(\E i \in 1..Len(task) : Enqueue(i))
    /\ WF_vars(\E i \in 1..Len(task) : Resume(i))
    /\ WF_vars(\E i \in 1..Len(task) : ChildFailed(i))
    /\ WF_vars(GatherRaised)
    /\ WF_vars(GatherDone)
    /\ \/ []<>~CompleteEnabled
       \/ []<><<\E i \in 1..Len(task) : Complete(i)>>_vars

\* filter_and_prioritize alone, on trees that use up the budget
InitSel ==
    /\ pc = "filter_and_prioritize"
    /\ tree \in SelTrees
    /\ network = "up"
    /\ files = <<>>
    /\ content = <<>>
    /\ char_limit = MAX_FILE_CHARS
    /\ Blank

NextSel == FilterAndSort \/ SelectStep \/ SelectReturn

SpecSel == InitSel /\ [][NextSel]_vars

\* build_file_context alone, on mappings that reach the budget
InitCtx ==
    /\ pc = "returned"
    /\ files \in CtxFiles
    /\ tree = <<>>
    /\ network = "up"
    /\ content = <<>>
    /\ char_limit = MAX_FILE_CHARS
    /\ Blank

NextCtx == BuildFileContext

SpecCtx == InitCtx /\ [][NextCtx]_vars

\* truncate_file alone
InitTrunc ==
    /\ pc = "truncate_file"
    /\ \E in \in TruncInputs : content = in.content /\ char_limit = in.char_limit
    /\ tree = <<>>
    /\ network = "up"
    /\ files = <<>>
    /\ Blank

NextTrunc == Truncate \/ TruncateAgain

SpecTrunc == InitTrunc /\ [][NextTrunc]_vars

(***************************************************************************)
(* Properties                                                              *)
(***************************************************************************)
\* the index in the tree of a path of the tree
TreeIndex(path) == CHOOSE k \in 1..Len(tree) : tree[k].path = path

\* the candidate of a selected path
CandidateOf(path) == CHOOSE c \in Range(candidates) : c.path = path

RECURSIVE SumAllotments(_)
SumAllotments(paths) ==
    IF paths = <<>> THEN 0
    ELSE Allotment(CandidateOf(Head(paths)).size) + SumAllotments(Tail(paths))

RECURSIVE SumLen(_)
SumLen(seqs) == IF seqs = <<>> THEN 0 ELSE Len(Head(seqs)) + SumLen(Tail(seqs))

IsEssential(item) == ~_should_skip(item.path) /\ _tier(item.path) <= 2

\* C1: when filter_and_prioritize has returned, every non-skipped entry of the tree
\* whose tier is 1 or 2 is in the result, whatever the budget was when it was reached.
C1_EssentialAlwaysSelected ==
    pc = "selected" =>
        \A k \in 1..Len(tree) : IsEssential(tree[k]) => tree[k].path \in Range(selected)

\* C2: a step of the loop that includes a candidate of tier > 2 finds its allotment
\* within the remaining budget and leaves the budget non-negative; and when no
\* candidate has tier 1 or 2 the allotments selected sum to at most CHAR_BUDGET.
C2_StepFits ==
    (pc = "select" /\ selected' # selected /\ candidates[idx].tier > 2) =>
        /\ Allotment(candidates[idx].size) <= budget
        /\ budget' >= 0

C2_SumWithinBudget ==
    (\A k \in 1..Len(candidates) : candidates[k].tier > 2) =>
        /\ SumAllotments(selected) <= CHAR_BUDGET
        /\ budget = CHAR_BUDGET - SumAllotments(selected)

C2_LowTiersWithinBudget == []C2_SumWithinBudget /\ [][C2_StepFits]_vars

\* a tree without tier 1 or 2 whose candidates did not all fit: some were selected,
\* one was left out for lack of budget
C2_Witness ==
    /\ pc = "selected"
    /\ \A k \in 1..Len(candidates) : candidates[k].tier > 2
    /\ selected # <<>>
    /\ \E k \in 1..Len(candidates) :
          /\ candidates[k].path \notin Range(selected)
          /\ Allotment(candidates[k].size) > budget
          /\ budget > 0

\* the sort key the program gave the i-th selected path, and its position in the tree
SelectedKey(i) ==
    LET c == CandidateOf(selected[i])
    IN  [tier |-> c.tier, size |-> c.size, at |-> TreeIndex(selected[i])]

\* C3: the selection has no duplicates, holds only candidates, and is ordered by tier,
\* then size, then position in the tree (each entry against the next: the order is
\* transitive), so it is a subsequence of the candidates sorted that way.
C3_SelectionOrdered ==
    /\ \A i, j \in 1..Len(selected) : i < j => selected[i] # selected[j]
    /\ \A i \in 1..Len(selected) :
          /\ \E k \in 1..Len(tree) : tree[k].path = selected[i]
          /\ \E k \in 1..Len(candidates) : candidates[k].path = selected[i]
    /\ \A i \in 1..(Len(selected) - 1) :
          LET a == SelectedKey(i)
              b == SelectedKey(i + 1)
          IN  \/ a.tier < b.tier
              \/ a.tier = b.tier /\ a.size < b.size
              \/ a.tier = b.tier /\ a.size = b.size /\ a.at < b.at

\* a returned selection with several tiers, entries of equal tier and size, and an
\* entry that stood later in the tree than its successor
C3_Witness ==
    /\ pc = "selected"
    /\ \E i \in 1..(Len(selected) - 1) :
          /\ SelectedKey(i).tier = SelectedKey(i + 1).tier
          /\ SelectedKey(i).size = SelectedKey(i + 1).size
    /\ \E i \in 1..(Len(selected) - 1) : SelectedKey(i).tier < SelectedKey(i + 1).tier
    /\ \E i \in 1..(Len(selected) - 1) : SelectedKey(i).at > SelectedKey(i + 1).at

\* the selected paths whose fetch succeeds, in selection order
ServedPath(path) == Served(network, path)
Fetched == SelectSeq(selected, ServedPath)

IsBlock(part) == part # OmittedMarker
BlocksOf(ps) == SelectSeq(ps, IsBlock)

\* C4: whatever order the fetches end in, gather's results stand at the positions of
\* their paths in the selection, the keys of the files dict are the selected paths that
\* were fetched, in selection order, and build_file_context renders its blocks in
\* that order.
C4_OrderPreserved ==
    /\ pc = "gather" =>
          \A i \in 1..Len(results) : results[i] # <<>> => results[i][1][1] = selected[i]
    /\ pc \in {"returned", "done"} => Keys(files) = Fetched
    /\ pc = "done" =>
          LET blocks == BlocksOf(parts)
          IN  /\ Len(blocks) <= Len(files)
              /\ \A k \in 1..Len(blocks) :
                    StartsAt(blocks[k], 1, <<35, 35, 35, 32>> \o Fetched[k] \o <<NL>>)   \* "### "
              /\ Len(parts) = Len(blocks) => Len(blocks) = Len(Fetched)

\* a finished run in which a fetch overtook an earlier one, some fetch failed and
\* several files were rendered
C4_Witness ==
    /\ pc = "done"
    /\ overtook
    /\ Len(files) >= 2
    /\ Len(files) < Len(selected)
    /\ Len(BlocksOf(parts)) = Len(files)

\* C5 as claimed: the string build_file_context returns is at most CHAR_BUDGET long.
C5_ContextWithinBudget == pc = "done" => Len(context) <= CHAR_BUDGET

\* C5: the blocks before the last one rendered total less than CHAR_BUDGET; the marker
\* is there exactly when the total reached CHAR_BUDGET, and then no further file is
\* rendered; so the string returned is below CHAR_BUDGET plus its last block, the
\* separators and the marker.
C5_ContextBoundedByLastBlock ==
    pc = "done" =>
        LET blocks == BlocksOf(parts)
            n == Len(blocks)
        IN  /\ n = 0 => context = <<>>
            /\ n > 0 =>
                  /\ SumLen(SubSeq(blocks, 1, n - 1)) < CHAR_BUDGET
                  /\ (Len(parts) > n) <=> (SumLen(blocks) >= CHAR_BUDGET)
                  /\ (Len(parts) = n) => n = Len(files)
                  /\ Len(context) < CHAR_BUDGET + Len(blocks[n]) + 2 * n + Len(OmittedMarker)

\* a context longer than CHAR_BUDGET, ended by the marker with files left out
C5_Witness ==
    /\ pc = "done"
    /\ Len(context) > CHAR_BUDGET
    /\ parts[Len(parts)] = OmittedMarker
    /\ Len(BlocksOf(parts)) < Len(files)

\* C6 as claimed: the result of truncate_file is at most char_limit long and at most as
\* long as the content.
C6_NeverLonger ==
    pc \in {"truncated", "truncated_twice"} =>
        Len(truncated) <= char_limit /\ Len(truncated) <= Len(content)

\* the longest note a content can get: both counts are at most its number of lines
LongestNote(text) == TruncationNote(Count(text, NL) + 1, Count(text, NL) + 1)

\* the length of content[:char_limit]: char_limit characters at most, and for a negative
\* char_limit all but the last -char_limit
SliceLen ==
    IF char_limit >= 0 THEN Min(char_limit, Len(content))
    ELSE IF Len(content) + char_limit > 0 THEN Len(content) + char_limit
    ELSE 0

\* C6: a content of at most char_limit characters is returned unchanged; a longer one
\* gives a prefix of content[:char_limit] followed by the truncation note, so for a
\* char_limit of 0 or more at most char_limit plus the length of the note.
C6_BoundedByLimitPlusNote ==
    pc \in {"truncated", "truncated_twice"} =>
        IF Len(content) <= char_limit THEN truncated = content
        ELSE /\ char_limit >= 0 => Len(truncated) <= char_limit + Len(LongestNote(content))
             /\ \E m \in 0..Len(LongestNote(content)) :
                   LET k == Len(truncated) - m
                   IN  /\ 0 <= k /\ k <= SliceLen
                       /\ SubSeq(truncated, 1, k) = SubSeq(content, 1, k)
                       /\ SubSeq(truncated, k + 1, Len(truncated))
                          = TruncationNote(Count(SubSeq(content, 1, k), NL) + 1,
                                           Count(content, NL) + 1)

\* a truncation whose result is longer than char_limit and longer than the content
C6_Witness ==
    /\ pc = "truncated"
    /\ Len(content) > char_limit
    /\ Len(truncated) > char_limit
    /\ Len(truncated) > Len(content)

\* C7 as claimed: truncating the result again with the same limit returns it unchanged.
C7_Idempotent == pc = "truncated_twice" => truncated2 = truncated

\* C7: truncating the result again returns it unchanged whenever the result is at most
\* char_limit long, as it is for every content of at most char_limit characters.
C7_IdempotentWithinLimit ==
    (pc = "truncated_twice" /\ Len(truncated) <= char_limit) => truncated2 = truncated

\* a content that was cut at a line boundary and whose result, note included, fits
C7_Witness ==
    /\ pc = "truncated_twice"
    /\ Len(content) > char_limit
    /\ truncated # content
    /\ Len(truncated) <= char_limit
    /\ truncated2 = truncated

\* the lines of a rendered tree
TreeLineCount == IF directory_tree = <<40, 101, 109, 112, 116, 121, 41>> THEN 0 ELSE Count(directory_tree, NL) + 1   \* "(empty)"

\* the paths of the tree that _should_skip rejects
SkippedPaths == {tree[k].path : k \in {n \in 1..Len(tree) : _should_skip(tree[n].path)}}

\* C8: a path of the tree that _should_skip rejects is not in the list
\* filter_and_prioritize returns, is not a key of the files dict fetch_repo_contents
\* returns, and has no line in the tree build_directory_tree returns: that tree has
\* one line per entry that is not skipped, each the line of such an entry.
C8_SkippedNowhere ==
    /\ pc = "selected" => Range(selected) \cap SkippedPaths = {}
    /\ pc = "returned" => Range(Keys(files)) \cap SkippedPaths = {}
    /\ pc = "filter_and_prioritize" =>
          LET skipped == SkippedPaths
              shown == {k \in 1..Len(tree) : tree[k].path \notin skipped}
          IN  /\ TreeLineCount = Cardinality(shown)
              /\ \A k \in shown : Contains(directory_tree, TreeLine(tree[k].path))

\* a finished run on a tree with a skipped entry and a fetched one
C8_Witness ==
    /\ pc = "done"
    /\ \E k \in 1..Len(tree) : _should_skip(tree[k].path)
    /\ Len(files) >= 1
    /\ directory_tree # <<40, 101, 109, 112, 116, 121, 41>>   \* "(empty)"

\* C9: whatever fetches fail, by a status other than 200, by bytes that are not UTF-8
\* or by an exception client.get raises, no exception leaves a fetch or gather; when
\* fetch_repo_contents returns, every task has run its fetch, and the files dict holds
\* exactly the selected paths the network served, each with the whole text of its file.
\* (A cancellation of the request is no failure of a fetch: it leaves the function.)
C9_FailuresAreAbsent ==
    /\ network # "interrupted" => (failed = {} /\ outer # "exception" /\ pc # "Exception")
    /\ pc = "returned" =>
          /\ \A i \in 1..Len(selected) : task[i] = "done" /\ fetches[i] = 1
          /\ Len(files) = Len(Fetched)
          /\ \A k \in 1..Len(files) : files[k] = <<Fetched[k], TextOf(Fetched[k])>>

\* a return with a fetch that raised, one that was not decodable or not found, and
\* files that were fetched
C9_Witness ==
    /\ pc = "returned"
    /\ Len(files) >= 1
    /\ \E i \in 1..Len(selected) : ClientGet(network, selected[i]).kind = "exception"
    /\ \E i \in 1..Len(selected) :
          /\ ClientGet(network, selected[i]).kind = "response"
          /\ ~Served(network, selected[i])

\* the fetches in flight: the tasks inside async with sem
InFlight == Cardinality({i \in 1..Len(task) : task[i] = "fetching"})

\* the tasks the semaphore has counted in: those in flight and those woken, for which
\* _wake_up_next took one from the counter before they run
Admitted == Cardinality({i \in 1..Len(task) : task[i] \in {"fetching", "woken"}})

AllFetchedOnce ==
    /\ Len(fetches) = Len(selected)
    /\ \A i \in 1..Len(fetches) : fetches[i] = 1

\* C10: at most MAX_CONCURRENT_FETCHES fetches hold the semaphore at any time (the
\* counter is what is left of MAX_CONCURRENT_FETCHES after the fetches in flight and
\* the waiters already woken), no path is fetched twice, and once the fetches are
\* started every selected path is eventually fetched once.
C10_BoundedAndComplete ==
    /\ [](/\ InFlight <= MAX_CONCURRENT_FETCHES
          /\ Admitted <= MAX_CONCURRENT_FETCHES
          /\ sem = MAX_CONCURRENT_FETCHES - Admitted)
    /\ [](\A i \in 1..Len(fetches) : fetches[i] <= 1)
    /\ [](pc = "gather" => <>AllFetchedOnce)

\* the semaphore is exhausted and a task waits for it
C10_Witness ==
    /\ pc = "gather"
    /\ InFlight = MAX_CONCURRENT_FETCHES
    /\ sem = 0
    /\ \E i \in 1..Len(task) : task[i] = "queued"

\* the 0-based positions of the newlines in content[:char_limit]
NewlinesInPrefix == {p \in 0..(SliceLen - 1) : content[p + 1] = NL}

\* rfind of the newline in content[:char_limit]: the last position, or -1
LastNewline == IF NewlinesInPrefix = {} THEN -1 ELSE SetMax(NewlinesInPrefix)

\* the length of content[:char_limit][:LastNewline]; with -1 the last character goes
CutBackLen ==
    IF LastNewline >= 0 THEN LastNewline
    ELSE IF SliceLen > 0 THEN SliceLen - 1
    ELSE 0

\* the result is the first k characters of the content followed by the note that counts
\* the lines of those k characters against the lines of the content
KeptAt(k) ==
    truncated = SubSeq(content, 1, k)
                \o TruncationNote(Count(SubSeq(content, 1, k), NL) + 1, Count(content, NL) + 1)

\* C11 as claimed: a content longer than char_limit is cut back to the last newline of
\* its first char_limit characters exactly when that newline's position is at or after
\* 80% of char_limit; otherwise the first char_limit characters are kept before the note.
C11_CutAtOrAfterEightyPercent ==
    (pc \in {"truncated", "truncated_twice"} /\ Len(content) > char_limit) =>
        IF NewlinesInPrefix # {} /\ 10 * LastNewline >= 8 * char_limit
        THEN KeptAt(LastNewline)
        ELSE KeptAt(SliceLen)

\* C11: a content longer than char_limit is cut back to the last newline of
\* content[:char_limit] exactly when the position rfind gives for it, -1 when there is
\* none, is strictly after 80% of char_limit; a newline exactly at 80%, or before it,
\* keeps content[:char_limit] before the note.  With a char_limit of 0 or more
\* content[:char_limit] is the first char_limit characters and a cut needs a newline;
\* with one of -2 or less the -1 of a missing newline passes the test and the last
\* character of content[:char_limit] goes.
C11_CutStrictlyAfterEightyPercent ==
    (pc \in {"truncated", "truncated_twice"} /\ Len(content) > char_limit) =>
        IF 10 * LastNewline > 8 * char_limit
        THEN KeptAt(CutBackLen)
        ELSE KeptAt(SliceLen)

\* a content cut back to a newline that stands just after the 80% mark
C11_Witness ==
    /\ pc = "truncated"
    /\ Len(content) > char_limit
    /\ char_limit > 0
    /\ NewlinesInPrefix # {}
    /\ 10 * LastNewline > 8 * char_limit
    /\ 10 * (LastNewline - 1) <= 8 * char_limit
    /\ KeptAt(LastNewline)
    /\ ~KeptAt(char_limit)
====
